---------------------------- MODULE Spec2Model ----------------------------
(***************************************************************************)
(* Verification model of the constellate-labs geometry-and-physics         *)
(* pipeline: the area sampler (poisson_disk_2d), the path sampler          *)
(* (poisson_disk_along_path, sample_waypoints), the path simplifier        *)
(* (douglas_peucker) and the constraint validator (clamp_to_bounds,        *)
(* check_velocity, check_acceleration, enforce_constraints).               *)
(*                                                                         *)
(* Coordinates are integers: a point is a pair <<x, y>> of multiples of a  *)
(* length quantum.  Comparisons of Euclidean lengths are made on squares,  *)
(* which is exact for integer coordinates.                                 *)
(***************************************************************************)
EXTENDS Integers, Sequences, FiniteSets

(***************************************************************************)
(* Bounds of the model.                                                    *)
(***************************************************************************)
\* largest coordinate of the area sampler's rectangle
MaxCoord == 3
\* largest n_points handed to the area sampler
MaxPoints == 3

(***************************************************************************)
(* State.  Each component of the pipeline is a function called on its own; *)
(* a specification runs one component and leaves the others idle.          *)
(***************************************************************************)
\* the area sampler, poisson_disk_2d
VARIABLES
    a_args,     \* the call's arguments
    grid,       \* dict cell -> accepted points, as a sequence in insertion order
    active,     \* the active list
    a_pc,       \* position in poisson_disk_2d
    a_out       \* the returned array

areaVars == <<a_args, grid, active, a_pc, a_out>>

\* the path simplifier, douglas_peucker
VARIABLES
    dp_points,      \* the input polyline
    dp_tolerance,   \* the tolerance
    dp_kept,        \* the indices (1-based) of the input points returned
    dp_out,         \* the returned polyline
    dp_pc           \* "call" before, "done" after the call

dpVars == <<dp_points, dp_tolerance, dp_kept, dp_out, dp_pc>>

\* the path sampler, poisson_disk_along_path, and the sampling stage,
\* sample_waypoints
VARIABLES
    p_path,         \* path_points, a sequence of integer points
    p_min_distance, \* min_distance
    p_resolution,   \* path_resolution; 0 stands for None
    p_out,          \* the returned points
    p_pc,           \* "call" before, "done" after poisson_disk_along_path
    s_paths,        \* the paths handed to sample_waypoints
    s_min_distance, \* min_distance
    s_positions,    \* SamplingResult.positions
    s_pc            \* "call" before, "done" after sample_waypoints

pathVars == <<p_path, p_min_distance, p_resolution, p_out, p_pc>>

sampleVars == <<s_paths, s_min_distance, s_positions, s_pc>>

\* the constraint validator, clamp_to_bounds and enforce_constraints
VARIABLES
    ec_positions,        \* the positions argument
    ec_max_velocity,     \* the max_velocity argument
    ec_max_acceleration, \* the max_acceleration argument
    ec_bounds,           \* the bounds argument: <<>> for None, or
                         \* <<min_x, min_y, max_x, max_y>>
    ec_margin,           \* the safety_margin / margin argument
    ec_clamped,          \* what a direct call of clamp_to_bounds returned
    ec_result,           \* the ConstraintResult enforce_constraints returned
    ec_pc                \* "call", "clamped", "done"; "idle" when unused

ecVars == <<ec_positions, ec_max_velocity, ec_max_acceleration, ec_bounds,
            ec_margin, ec_clamped, ec_result, ec_pc>>

\* the velocity check, check_velocity, called on its own
VARIABLES
    cv_positions,    \* the positions argument
    cv_timestamps,   \* the timestamps argument
    cv_max_velocity, \* the max_velocity argument
    cv_result,       \* the pair returned: [ok, violations]
    cv_pc            \* "call" before, "done" after the call

cvVars == <<cv_positions, cv_timestamps, cv_max_velocity, cv_result, cv_pc>>

\* the show assembly, export_skybrush; its sampler call runs the area sampler
VARIABLES
    sk_waypoints, \* constraint_result.waypoints
    sk_drones,    \* number_of_drones
    sk_spacing,   \* drone_spacing
    sk_bbox,      \* bounding_box_xy: <<>> for None, or <<min_x, .., max_y>>
    sk_margin,    \* drone_placement_margin
    sk_expand,    \* drone_placement_expand
    sk_offsets,   \* the offsets of _build_skybrush_structure
    sk_show,      \* the FlightShow returned
    sk_first,     \* the offsets and the FlightShow of the first call
    sk_calls,     \* calls begun so far with these arguments
    sk_pc         \* "call", "sampling", "done"; "idle" when unused

skVars == <<sk_waypoints, sk_drones, sk_spacing, sk_bbox, sk_margin, sk_expand,
            sk_offsets, sk_show, sk_first, sk_calls, sk_pc>>

\* the points-attribute parser, _parse_points_attr
VARIABLES
    pp_str,  \* points_str, a sequence of characters
    pp_out,  \* the points returned
    pp_pc    \* "call" before, "done" after the call

ppVars == <<pp_str, pp_out, pp_pc>>

\* the extractor, _extract_paths_from_svg
VARIABLES
    ex_markup,   \* svg_content: whether it is well-formed XML, and its elements
    ex_results,  \* the list returned
    ex_pc        \* "call" before; "done" or "raised" after the call

exVars == <<ex_markup, ex_results, ex_pc>>

\* the geometry stage, process_geometry
VARIABLES
    pg_markup,         \* svg_content, as the extractor reads it
    pg_tolerance,      \* simplification_tolerance
    pg_origin_center,  \* origin_center
    pg_scale,          \* scale_to_meters
    pg_result,         \* the GeometryResult returned
    pg_pc              \* "call" before; "done" or "raised" after the call

pgVars == <<pg_markup, pg_tolerance, pg_origin_center, pg_scale, pg_result,
            pg_pc>>

\* the stages run in sequence on one markup, as run_pipeline runs them
VARIABLES
    pl_markup,         \* svg_content of the geometry stage
    pl_drones,         \* number_of_drones
    pl_spacing,        \* drone_spacing
    pl_expand,         \* drone_placement_expand
    pl_geom,           \* geom_result
    pl_positions,      \* sampling_result.positions
    pl_constraint,     \* constraint_result
    pl_show,           \* flight_show
    pl_pc              \* the stage to run next; "done" or "raised" at the end

plVars == <<pl_markup, pl_drones, pl_spacing, pl_expand, pl_geom,
            pl_positions, pl_constraint, pl_show, pl_pc>>

vars == <<areaVars, dpVars, pathVars, sampleVars, ecVars, cvVars, skVars,
          ppVars, exVars, pgVars, plVars>>

\* what a call of one component leaves alone: the other components
areaFrame == <<dpVars, pathVars, sampleVars, ecVars, cvVars, skVars, ppVars,
               exVars, pgVars, plVars>>

dpFrame == <<areaVars, pathVars, sampleVars, ecVars, cvVars, skVars, ppVars,
             exVars, pgVars, plVars>>

pathFrame == <<areaVars, dpVars, sampleVars, ecVars, cvVars, skVars, ppVars,
               exVars, pgVars, plVars>>

sampleFrame == <<areaVars, dpVars, pathVars, ecVars, cvVars, skVars, ppVars,
                 exVars, pgVars, plVars>>

ecFrame == <<areaVars, dpVars, pathVars, sampleVars, cvVars, skVars, ppVars,
             exVars, pgVars, plVars>>

cvFrame == <<areaVars, dpVars, pathVars, sampleVars, ecVars, skVars, ppVars,
             exVars, pgVars, plVars>>

skFrame == <<areaVars, dpVars, pathVars, sampleVars, ecVars, cvVars, ppVars,
             exVars, pgVars, plVars>>

\* what the assembly and the area sampler it calls leave alone
skAreaFrame == <<dpVars, pathVars, sampleVars, ecVars, cvVars, ppVars,
                 exVars, pgVars, plVars>>

ppFrame == <<areaVars, dpVars, pathVars, sampleVars, ecVars, cvVars, skVars,
             exVars, pgVars, plVars>>

exFrame == <<areaVars, dpVars, pathVars, sampleVars, ecVars, cvVars, skVars,
             ppVars, pgVars, plVars>>

pgFrame == <<areaVars, dpVars, pathVars, sampleVars, ecVars, cvVars, skVars,
             ppVars, exVars, plVars>>

plFrame == <<areaVars, dpVars, pathVars, sampleVars, ecVars, cvVars, skVars,
             ppVars, exVars, pgVars>>

\* what the export stage leaves alone while it hands over to the assembly
plSkFrame == <<areaVars, dpVars, pathVars, sampleVars, ecVars, cvVars, ppVars,
               exVars, pgVars>>

(***************************************************************************)
(* Arithmetic helpers.                                                     *)
(***************************************************************************)
Abs(a) == IF a < 0 THEN -a ELSE a

Min2(a, b) == IF a <= b THEN a ELSE b

Max2(a, b) == IF a >= b THEN a ELSE b

\* squared Euclidean distance of two points
Dist2(p, q) == (p[1] - q[1]) * (p[1] - q[1]) + (p[2] - q[2]) * (p[2] - q[2])

(***************************************************************************)
(* Area sampler: poisson_disk_2d (utils/sampling.py).                      *)
(***************************************************************************)
\* candidates tried per loop iteration: for _ in range(30)
MaxAttempts == 30

lo_x == a_args.min_x + a_args.margin
lo_y == a_args.min_y + a_args.margin
hi_x == a_args.max_x - a_args.margin
hi_y == a_args.max_y - a_args.margin

\* floor(d / cell_size) with cell_size = r / sqrt(2), for d >= 0 and r > 0:
\* the largest k with k * r <= d * sqrt(2)
FloorCells(d, r) ==
    CHOOSE k \in 0..(2 * d) :
        /\ k * k * r * r <= 2 * d * d
        /\ (k + 1) * (k + 1) * r * r > 2 * d * d

\* int(d / cell_size): int() truncates towards zero
CellIndex(d, r) == IF d >= 0 THEN FloorCells(d, r) ELSE -FloorCells(-d, r)

cell(p) ==
    <<CellIndex(p[1] - lo_x, a_args.min_distance),
      CellIndex(p[2] - lo_y, a_args.min_distance)>>

\* a mutant of in_bounds: the margin is forgotten
in_bounds_no_margin(x, y) ==
    /\ a_args.min_x <= x /\ x <= a_args.max_x
    /\ a_args.min_y <= y /\ y <= a_args.max_y

in_bounds(x, y) == lo_x <= x /\ x <= hi_x /\ lo_y <= y /\ y <= hi_y

\* a mutant of the neighbourhood: only the candidate's own cell is searched
NeighbourOffsetsOwnCell == {0}

\* for dx in (-2, -1, 0, 1, 2)
NeighbourOffsets == {-2, -1, 0, 1, 2}

\* the entries of the dict are visited once each: an entry is read when its
\* key is (cx + dx, cy + dy) for some dx, dy of the neighbourhood
valid(p, cx, cy) ==
    \A e \in 1..Len(grid) :
        (/\ (grid[e].k[1] - cx) \in NeighbourOffsets
         /\ (grid[e].k[2] - cy) \in NeighbourOffsets)
        => \A i \in 1..Len(grid[e].v) :
                ~ (Dist2(grid[e].v[i], p)
                     < a_args.min_distance * a_args.min_distance)

\* grid[cq].extend([qx, qy]), creating the key when it is new
GridInsert(g, cq, q) ==
    IF \E i \in 1..Len(g) : g[i].k = cq
    THEN [i \in 1..Len(g) |->
            IF g[i].k = cq THEN [k |-> cq, v |-> Append(g[i].v, q)] ELSE g[i]]
    ELSE Append(g, [k |-> cq, v |-> <<q>>])

RECURSIVE Flatten(_)
\* for k in grid: for i in range(0, len(grid[k]), 2): out.append(...)
Flatten(g) == IF g = <<>> THEN <<>> ELSE g[1].v \o Flatten(Tail(g))

\* a mutant of the final slice: nothing is cut off
PrefixWhole(s, n) == s

Prefix(s, n) == SubSeq(s, 1, Min2(n, Len(s)))

\* a mutant of active.pop(idx): nothing is removed
RemoveAtNone(s, i) == s

RemoveAt(s, i) == SubSeq(s, 1, i - 1) \o SubSeq(s, i + 1, Len(s))

\* px + rad * cos(angle), py + rad * sin(angle) with rad in [r, 2r]:
\* the lattice points of the annulus around p
Candidates(p, r) ==
    {q \in ((p[1] - 2 * r)..(p[1] + 2 * r)) \X ((p[2] - 2 * r)..(p[2] + 2 * r)) :
        r * r <= Dist2(p, q) /\ Dist2(p, q) <= 4 * r * r}

\* the rectangles handed to the sampler: with a margin of 1 the shrunk
\* rectangle is MaxCoord wide, without a margin MaxCoord - 1 wide; it is
\* 2 high, or empty
AreaArgs ==
    {[min_x |-> 0, min_y |-> 0,
      max_x |-> MaxCoord - 1 + 3 * m, max_y |-> sy + 2 * m,
      min_distance |-> r, n_points |-> n, margin |-> m] :
        sy \in {0, 2}, m \in {0, 1},
        r \in {-1, 0, 2}, n \in 0..MaxPoints}

AreaInit ==
    /\ a_args \in AreaArgs
    /\ grid = <<>>
    /\ active = <<>>
    /\ a_pc = "entry"
    /\ a_out = <<>>

\* the rectangles without a margin: the runs whose termination is checked
AreaFairInit ==
    /\ AreaInit
    /\ a_args.margin = 0

\* lines 80-87: the early returns
AreaReject ==
    /\ a_pc = "entry"
    /\ \/ a_args.n_points <= 0
       \/ a_args.min_distance <= 0
       \/ lo_x >= hi_x
       \/ lo_y >= hi_y
    /\ a_pc' = "done"
    /\ a_out' = <<>>
    /\ UNCHANGED <<a_args, grid, active>>
    /\ UNCHANGED areaFrame

\* lines 112-118: the first point, uniform in the shrunk rectangle
AreaSeed ==
    /\ a_pc = "entry"
    /\ a_args.n_points > 0
    /\ a_args.min_distance > 0
    /\ lo_x < hi_x
    /\ lo_y < hi_y
    /\ \E x0 \in lo_x..hi_x, y0 \in lo_y..hi_y :
        /\ active' = <<(<<x0, y0>>)>>
        /\ grid' = <<[k |-> cell(<<x0, y0>>), v |-> <<(<<x0, y0>>)>>]>>
    /\ a_pc' = "loop"
    /\ UNCHANGED <<a_args, a_out>>
    /\ UNCHANGED areaFrame

\* the candidates of one loop iteration around the picked active point p
\* that pass in_bounds and valid (lines 129-132)
Accepted(p) ==
    {q \in Candidates(p, a_args.min_distance) :
        in_bounds(q[1], q[2]) /\ valid(q, cell(q)[1], cell(q)[2])}

\* lines 120-138: one iteration of the while loop in which one of the
\* MaxAttempts candidates drawn around the picked active point passes (the
\* first draw may be any candidate, so any passing candidate can be the one)
AreaAccept ==
    /\ a_pc = "loop"
    /\ active # <<>>
    /\ Len(active) < a_args.n_points
    /\ \E idx \in 0..(Len(active) - 1) :
        LET p == active[idx + 1]
            ok == Accepted(p)
        IN  /\ MaxAttempts >= 1
            /\ \E q \in ok :
                /\ active' = Append(active, q)
                /\ grid' = GridInsert(grid, cell(q), q)
    /\ UNCHANGED <<a_args, a_pc, a_out>>
    /\ UNCHANGED areaFrame

\* lines 120-140: one iteration of the while loop in which all MaxAttempts
\* candidates are refused (every draw may repeat one refused candidate):
\* found stays False and the active point is popped
AreaGiveUp ==
    /\ a_pc = "loop"
    /\ active # <<>>
    /\ Len(active) < a_args.n_points
    /\ \E idx \in 0..(Len(active) - 1) :
        LET p == active[idx + 1]
            someRefused == Candidates(p, a_args.min_distance) # Accepted(p)
        IN  /\ MaxAttempts >= 1 => someRefused
            /\ active' = RemoveAt(active, idx + 1)
    /\ UNCHANGED <<a_args, grid, a_pc, a_out>>
    /\ UNCHANGED areaFrame

\* lines 142-148: the loop has ended
AreaReturn ==
    /\ a_pc = "loop"
    /\ ~ (active # <<>> /\ Len(active) < a_args.n_points)
    /\ a_out' = Prefix(Flatten(grid), a_args.n_points)
    /\ a_pc' = "done"
    /\ UNCHANGED <<a_args, grid, active>>
    /\ UNCHANGED areaFrame

AreaNext ==
    \/ AreaReject
    \/ AreaSeed
    \/ AreaAccept
    \/ AreaGiveUp
    \/ AreaReturn

AreaIdle ==
    /\ a_args = [min_x |-> 0, min_y |-> 0, max_x |-> 0, max_y |-> 0,
                 min_distance |-> 0, n_points |-> 0, margin |-> 0]
    /\ grid = <<>>
    /\ active = <<>>
    /\ a_pc = "idle"
    /\ a_out = <<>>

(***************************************************************************)
(* Path simplifier: douglas_peucker (utils/geometry.py).                   *)
(***************************************************************************)
\* longest polyline handed to the simplifier
MaxSimplifyLen == 4

\* the 1e-12 under which a baseline counts as zero-length (line 23), with
\* the simplifier's coordinates read in quanta of 5e-13
LineLenEps == 2

\* abs(seg_vecs[:, 0] * line_vec[1] - seg_vecs[:, 1] * line_vec[0]) for point q
\* and the line from p0 to p1; the perpendicular distance is Cross / line_len
Cross(p0, p1, q) ==
    Abs((q[1] - p0[1]) * (p1[2] - p0[2]) - (q[2] - p0[2]) * (p1[1] - p0[1]))

\* np.argmax(dists) + 1 over the interior points of points[lo..hi], as an
\* index into points: the first index whose distance is the largest
ArgMaxDist(points, lo, hi) ==
    CHOOSE i \in (lo + 1)..(hi - 1) :
        /\ \A j \in (lo + 1)..(hi - 1) :
              Cross(points[lo], points[hi], points[j])
                <= Cross(points[lo], points[hi], points[i])
        /\ \A j \in (lo + 1)..(i - 1) :
              Cross(points[lo], points[hi], points[j])
                < Cross(points[lo], points[hi], points[i])

\* a mutant of the collapse test: the comparison is strict
WithinToleranceStrict(c, tolerance, len2) == c * c < tolerance * tolerance * len2

\* a mutant of the collapse test: every slice of 3 points or more is split
WithinToleranceNever(c, tolerance, len2) == FALSE

\* max_dist <= tolerance, with max_dist = c / line_len and line_len^2 = len2
WithinTolerance(c, tolerance, len2) == c * c <= tolerance * tolerance * len2

RECURSIVE KeptIndices(_, _, _, _)
\* douglas_peucker on the slice points[lo..hi]: the indices of the points it
\* returns, in order
KeptIndices(points, lo, hi, tolerance) ==
    IF hi - lo + 1 < 3
    THEN [i \in 1..(hi - lo + 1) |-> lo + i - 1]
    ELSE IF points[lo] = points[hi]
    THEN <<lo>>
    ELSE IF Dist2(points[lo], points[hi]) < LineLenEps * LineLenEps
    THEN <<lo>>
    ELSE LET idx == ArgMaxDist(points, lo, hi)
             max_cross == Cross(points[lo], points[hi], points[idx])
         IN  IF WithinTolerance(max_cross, tolerance,
                                Dist2(points[lo], points[hi]))
             THEN <<lo, hi>>
             ELSE LET left == KeptIndices(points, lo, idx, tolerance)
                      right == KeptIndices(points, idx, hi, tolerance)
                  IN  SubSeq(left, 1, Len(left) - 1) \o right

RECURSIVE CollapsedSlices(_, _, _, _)
\* the calls of douglas_peucker made for the slice points[lo..hi], itself
\* included, that return points[:1] (lines 19-24), each named by the first
\* and last index of its slice
CollapsedSlices(points, lo, hi, tolerance) ==
    IF hi - lo + 1 < 3
    THEN {}
    ELSE IF points[lo] = points[hi]
    THEN {<<lo, hi>>}
    ELSE IF Dist2(points[lo], points[hi]) < LineLenEps * LineLenEps
    THEN {<<lo, hi>>}
    ELSE LET idx == ArgMaxDist(points, lo, hi)
             max_cross == Cross(points[lo], points[hi], points[idx])
         IN  IF WithinTolerance(max_cross, tolerance,
                                Dist2(points[lo], points[hi]))
             THEN {}
             ELSE CollapsedSlices(points, lo, idx, tolerance)
                    \cup CollapsedSlices(points, idx, hi, tolerance)

douglas_peucker(points, tolerance) ==
    LET kept == KeptIndices(points, 1, Len(points), tolerance)
    IN  [i \in 1..Len(kept) |-> points[kept[i]]]

SimplifyLattice == (0..3) \X (0..1)

Tolerances == {0, 1, 2}

SeqsUpTo(S, n) == UNION {[1..k -> S] : k \in 0..n}

DpInit ==
    /\ dp_points \in SeqsUpTo(SimplifyLattice, MaxSimplifyLen)
    /\ dp_tolerance \in Tolerances
    /\ dp_kept = <<>>
    /\ dp_out = <<>>
    /\ dp_pc = "call"

DpIdle ==
    /\ dp_points = <<>>
    /\ dp_tolerance = 0
    /\ dp_kept = <<>>
    /\ dp_out = <<>>
    /\ dp_pc = "idle"

Simplify ==
    /\ dp_pc = "call"
    /\ dp_kept' = KeptIndices(dp_points, 1, Len(dp_points), dp_tolerance)
    /\ dp_out' = douglas_peucker(dp_points, dp_tolerance)
    /\ dp_pc' = "done"
    /\ UNCHANGED <<dp_points, dp_tolerance>>
    /\ UNCHANGED dpFrame

(***************************************************************************)
(* Path sampler: _discretize_path, poisson_disk_along_path                 *)
(* (utils/sampling.py) and sample_waypoints (pipeline/stage3_poisson.py).  *)
(*                                                                         *)
(* The sampler's coordinates are read in quanta of 1e-8.  A sampled point  *)
(* is a rational point <<xn, yn, d>>, standing for (xn / d, yn / d), d > 0:*)
(* the interpolated points of a segment cut in n parts have denominator n. *)
(***************************************************************************)
\* largest x coordinate of a path point
MaxPathCoord == 3

\* np.allclose: atol = 1e-8 is one quantum, rtol = 1e-5 is 1 / RtolInv
Atol == 1
RtolInv == 100000

Rat(p) == <<p[1], p[2], 1>>

\* squared distance of rational points p and q, times (p[3] * q[3])^2
RDist2Scaled(p, q) ==
    (p[1] * q[3] - q[1] * p[3]) * (p[1] * q[3] - q[1] * p[3])
      + (p[2] * q[3] - q[2] * p[3]) * (p[2] * q[3] - q[2] * p[3])

\* a mutant of the spacing test: min_distance is not squared
FarEnoughUnsquared(pt, last, r) ==
    RDist2Scaled(pt, last) >= r * pt[3] * pt[3] * last[3] * last[3]

\* np.sum((pt - last) ** 2) >= r2 with r2 = r * r
FarEnough(pt, last, r) ==
    RDist2Scaled(pt, last) >= r * r * pt[3] * pt[3] * last[3] * last[3]

\* abs(a - b) <= atol + rtol * abs(b) for the coordinates an / ad and bn / bd
CloseCoord(an, ad, bn, bd) ==
    RtolInv * Abs(an * bd - bn * ad) <= RtolInv * Atol * ad * bd + Abs(bn) * ad

\* np.allclose(a, b)
AllClose(a, b) ==
    CloseCoord(a[1], a[3], b[1], b[3]) /\ CloseCoord(a[2], a[3], b[2], b[3])

\* max(1, int(np.ceil(seg_len / segment_length))) for seg_len^2 = len2 > 0 and
\* segment_length = rn / rd # 0.  For rn > 0 it is the least n >= 1 with
\* n * rn >= seg_len * rd; for rn < 0 the quotient is negative and max gives 1
SegmentCount(len2, rn, rd) ==
    IF rn < 0
    THEN 1
    ELSE CHOOSE n \in 1..(3 * len2 * rd + 1) :
            /\ n * n * rn * rn >= len2 * rd * rd \/ n = 3 * len2 * rd + 1
            /\ n > 1 => (n - 1) * (n - 1) * rn * rn < len2 * rd * rd

\* a + t * (b - a) for t in np.linspace(0, 1, n, endpoint=False)
Interpolate(a, b, n) ==
    [j \in 1..n |-> <<a[1] * n + (j - 1) * (b[1] - a[1]),
                      a[2] * n + (j - 1) * (b[2] - a[2]), n>>]

RECURSIVE DenseFrom(_, _, _, _)
\* the loop of _discretize_path from segment i on, and the final pts[-1:]
DenseFrom(pts, i, rn, rd) ==
    IF i > Len(pts) - 1
    THEN <<Rat(pts[Len(pts)])>>
    ELSE (IF Dist2(pts[i], pts[i + 1]) < 1
          THEN <<Rat(pts[i])>>
          ELSE Interpolate(pts[i], pts[i + 1],
                           SegmentCount(Dist2(pts[i], pts[i + 1]), rn, rd)))
         \o DenseFrom(pts, i + 1, rn, rd)

\* _discretize_path(points, segment_length) with segment_length = rn / rd
discretize_path(pts, rn, rd) ==
    IF Len(pts) < 2
    THEN [i \in 1..Len(pts) |-> Rat(pts[i])]
    ELSE DenseFrom(pts, 1, rn, rd)

RECURSIVE Greedy(_, _, _, _)
\* lines 54-58: the kept points after dense[i..] has been scanned.  The loop
\* passes over the points that are not far enough from the last kept one;
\* the first point that is far enough is appended and becomes the last
Greedy(dense, i, ordered, r) ==
    LET far == {j \in i..Len(dense) :
                   FarEnough(dense[j], ordered[Len(ordered)], r)}
    IN  IF far = {}
        THEN ordered
        ELSE LET next == CHOOSE j \in far : \A k \in far : j <= k
             IN  Greedy(dense, next + 1, Append(ordered, dense[next]), r)

\* res = path_resolution or min_distance / 3.0, and the dense path
Dense(path, r, resolution) ==
    IF resolution # 0
    THEN discretize_path(path, resolution, 1)
    ELSE discretize_path(path, r, 3)

\* a mutant of the endpoint rule: the true last point is never appended
ForcedEndNever(path, r, resolution) == FALSE

\* line 59: the true last point is appended after the greedy pass
ForcedEnd(path, r, resolution) ==
    LET dense == Dense(path, r, resolution)
        ordered == Greedy(dense, 2, <<dense[1]>>, r)
    IN  /\ Len(dense) > 1
        /\ ~ AllClose(ordered[Len(ordered)], dense[Len(dense)])

\* lines 43 and 21: with path_resolution None and min_distance 0 the
\* resolution is 0.0; a segment of 1e-12 or more then has seg_len / 0.0 = inf,
\* and int(np.ceil(inf)) raises OverflowError
Raises(path, r, resolution) ==
    /\ resolution = 0
    /\ r = 0
    /\ \E i \in 1..(Len(path) - 1) : Dist2(path[i], path[i + 1]) >= 1

\* the array returned when the call does not raise
poisson_disk_along_path(path, r, resolution) ==
    IF Len(path) = 0
    THEN <<>>
    ELSE LET dense == Dense(path, r, resolution)
             ordered == Greedy(dense, 2, <<dense[1]>>, r)
         IN  IF Len(dense) = 1
             THEN dense
             ELSE IF ForcedEnd(path, r, resolution)
                  THEN Append(ordered, dense[Len(dense)])
                  ELSE ordered

RECURSIVE ConcatSamples(_, _, _)
\* lines 25-40: the samples of the paths, the empty ones left out, stacked
ConcatSamples(paths, i, r) ==
    IF i > Len(paths)
    THEN <<>>
    ELSE poisson_disk_along_path(paths[i], r, 0) \o ConcatSamples(paths, i + 1, r)

sample_waypoints(paths, r) == ConcatSamples(paths, 1, r)

PathLattice == (0..MaxPathCoord) \X (0..1)

PathInit ==
    /\ p_path \in SeqsUpTo(PathLattice, 3)
    /\ p_min_distance \in {-1, 0, 1, 2, 3}
    /\ p_resolution \in {0, 1}
    /\ p_out = <<>>
    /\ p_pc = "call"

PathIdle ==
    /\ p_path = <<>>
    /\ p_min_distance = 1
    /\ p_resolution = 0
    /\ p_out = <<>>
    /\ p_pc = "idle"

\* a call of poisson_disk_along_path: it returns ("done") or it leaves by
\* the exception ("raised"), and then nothing is returned
SamplePath ==
    /\ p_pc = "call"
    /\ IF Raises(p_path, p_min_distance, p_resolution)
       THEN /\ p_out' = <<>>
            /\ p_pc' = "raised"
       ELSE /\ p_out' = poisson_disk_along_path(p_path, p_min_distance,
                                                p_resolution)
            /\ p_pc' = "done"
    /\ UNCHANGED <<p_path, p_min_distance, p_resolution>>
    /\ UNCHANGED pathFrame

\* the paths of a GeometryResult: process_geometry keeps a path only when it
\* has at least 2 points
ProcessedPaths == [1..2 -> PathLattice]

SampleInit ==
    /\ s_paths \in SeqsUpTo(ProcessedPaths, 2)
    /\ s_min_distance \in {1, 2, 3}
    /\ s_positions = <<>>
    /\ s_pc = "call"

SampleIdle ==
    /\ s_paths = <<>>
    /\ s_min_distance = 1
    /\ s_positions = <<>>
    /\ s_pc = "idle"

SampleWaypoints ==
    /\ s_pc = "call"
    /\ s_positions' = sample_waypoints(s_paths, s_min_distance)
    /\ s_pc' = "done"
    /\ UNCHANGED <<s_paths, s_min_distance>>
    /\ UNCHANGED sampleFrame

(***************************************************************************)
(* Constraint validator: clamp_to_bounds, check_velocity,                  *)
(* check_acceleration (utils/validation.py) and enforce_constraints        *)
(* (pipeline/stage4_constraints.py).                                       *)
(*                                                                         *)
(* The validator's arithmetic is numpy's binary floating point.  A float   *)
(* is modelled by an integer number of quanta, FScale quanta to the unit,  *)
(* and is representable when it is m * 2^e with |m| < 2^FPrec, e >= 0:     *)
(* the format of float64 with a narrower mantissa and exponent range.      *)
(* Every operation rounds its exact result to the nearest representable    *)
(* value, ties to the even mantissa, as IEEE 754 arithmetic does.          *)
(***************************************************************************)
\* longest position sequence handed to the validator
MaxEcLen == 3

\* bits of the mantissa of the modelled floating-point format
FPrec == 4

\* quanta to the unit: the float 1.0 is FScale
\* (stage4_constraints.py line 26: positions are read as floats)
FScale == 8

\* default_altitude = 10.0 (stage4_constraints.py line 18)
DefaultAltitude == 80

\* the exponent of the rational num / den >= 0: the least e >= 0 with
\* num / den < 2^(FPrec + e)
RECURSIVE FExp(_, _, _)
FExp(num, den, e) ==
    IF num < den * 2 ^ (FPrec + e) THEN e ELSE FExp(num, den, e + 1)

\* the rational num / den >= 0, den > 0, rounded to the nearest
\* representable value, ties to the even mantissa
FRoundPos(num, den) ==
    LET step == 2 ^ FExp(num, den, 0)
        k == num \div (den * step)
        rem2 == 2 * (num - k * den * step)
        up == rem2 > den * step \/ (rem2 = den * step /\ k % 2 = 1)
    IN  (IF up THEN k + 1 ELSE k) * step

\* rounding is symmetric about zero
FRound(num, den) ==
    IF num >= 0 THEN FRoundPos(num, den) ELSE - FRoundPos(- num, den)

\* a + b and a - b in floating point
FAdd(a, b) == FRound(a + b, 1)

FSub(a, b) == FRound(a - b, 1)

\* a * b in floating point
FMul(a, b) == FRound(a * b, FScale)

\* a / b in floating point, b > 0
FDiv(a, b) == FRound(a * FScale, b)

\* the integer part of the square root of m, found by bisection in lo..hi-1
RECURSIVE ISqrtIn(_, _, _)
ISqrtIn(m, lo, hi) ==
    IF hi - lo <= 1
    THEN lo
    ELSE LET mid == (lo + hi) \div 2
         IN  IF mid * mid <= m THEN ISqrtIn(m, mid, hi) ELSE ISqrtIn(m, lo, mid)

ISqrt(m) == ISqrtIn(m, 0, Min2(m + 1, 46341))

\* the square root of w >= 0 in floating point: sqrt(w * FScale) quanta,
\* rounded to the nearest representable value
FSqrt(w) ==
    LET m == w * FScale
        f == ISqrt(m)
        step == 2 ^ FExp(f, 1, 0)
        k == f \div step
        mid2 == 2 * k * step + step
        up == 4 * m > mid2 * mid2 \/ (4 * m = mid2 * mid2 /\ k % 2 = 1)
    IN  (IF up THEN k + 1 ELSE k) * step

\* np.linalg.norm of the vector (dx, dy): the squares, their sum and the
\* root are each rounded
\* (stage4_constraints.py line 50, validation.py lines 27 and 61)
Norm(dx, dy) == FSqrt(FAdd(FMul(dx, dx), FMul(dy, dy)))

\* np.clip(x, lo, hi) is minimum(maximum(x, lo), hi): hi when lo > hi
Clip(x, lo, hi) == Min2(Max2(x, lo), hi)

\* a mutant of clamp_to_bounds: the margin is forgotten
clamp_to_bounds_no_margin(positions, min_x, min_y, max_x, max_y, margin) ==
    [i \in 1..Len(positions) |->
        <<Clip(positions[i][1], min_x, max_x), Clip(positions[i][2], min_y, max_y)>>]

\* a mutant of clamp_to_bounds: y is clipped into the range of x
clamp_to_bounds_x_range(positions, min_x, min_y, max_x, max_y, margin) ==
    [i \in 1..Len(positions) |->
        <<Clip(positions[i][1], FAdd(min_x, margin), FSub(max_x, margin)),
          Clip(positions[i][2], FAdd(min_x, margin), FSub(max_x, margin))>>]

\* clamp_to_bounds (validation.py lines 67-90), for an array of points:
\* an empty array is returned as it is (lines 77-78), else each column is
\* clipped (lines 88-89) to the bounds moved inward by the margin
\* (lines 79-82)
clamp_to_bounds(positions, min_x, min_y, max_x, max_y, margin) ==
    LET clamp_lo_x == FAdd(min_x, margin)
        clamp_lo_y == FAdd(min_y, margin)
        clamp_hi_x == FSub(max_x, margin)
        clamp_hi_y == FSub(max_y, margin)
    IN  IF positions = <<>>
        THEN positions
        ELSE [i \in 1..Len(positions) |->
                <<Clip(positions[i][1], clamp_lo_x, clamp_hi_x),
                  Clip(positions[i][2], clamp_lo_y, clamp_hi_y)>>]

\* the length of the step from positions[i] to positions[i + 1]
\* (stage4_constraints.py line 50, validation.py lines 25-27)
StepLength(positions, i) ==
    Norm(FSub(positions[i + 1][1], positions[i][1]),
         FSub(positions[i + 1][2], positions[i][2]))

\* dists: the lengths of the steps, after a leading 0.0
\* (stage4_constraints.py lines 50-51)
Dists(positions) ==
    <<0>> \o [i \in 1..(Len(positions) - 1) |-> StepLength(positions, i)]

\* np.cumsum of the first i elements of s: a running floating-point sum
RECURSIVE CumSum(_, _)
CumSum(s, i) ==
    IF i = 0
    THEN <<>>
    ELSE LET prev == CumSum(s, i - 1)
         IN  Append(prev, IF i = 1 THEN s[1] ELSE FAdd(prev[i - 1], s[i]))

\* a mutant of Timestamps: the lengths are not divided by max_velocity
TimestampsUndivided(positions, max_velocity) ==
    CumSum(Dists(positions), Len(positions))

\* times = cumsum(dists / max_velocity) (stage4_constraints.py lines 52-53)
Timestamps(positions, max_velocity) ==
    LET dists == Dists(positions)
    IN  CumSum([i \in 1..Len(positions) |-> FDiv(dists[i], max_velocity)],
               Len(positions))

\* a mutant of check_velocity: a segment at exactly max_velocity is reported
check_velocity_at_least(positions, timestamps, max_velocity) ==
    IF Len(positions) < 2 \/ Len(timestamps) < 2
    THEN [ok |-> TRUE, violations |-> <<>>]
    ELSE LET n == Min2(Len(positions), Len(timestamps)) - 1
             Violates(i) ==
                 LET dt == FSub(timestamps[i + 2], timestamps[i + 1])
                 IN  /\ ~ (dt <= 0)
                     /\ FDiv(StepLength(positions, i + 1), dt) >= max_velocity
             violations == SelectSeq([i \in 1..n |-> i - 1], Violates)
         IN  [ok |-> Len(violations) = 0, violations |-> violations]

\* a mutant of check_velocity: every segment with dt > 0 is reported
check_velocity_every(positions, timestamps, max_velocity) ==
    IF Len(positions) < 2 \/ Len(timestamps) < 2
    THEN [ok |-> TRUE, violations |-> <<>>]
    ELSE LET n == Min2(Len(positions), Len(timestamps)) - 1
             Violates(i) ==
                 ~ (FSub(timestamps[i + 2], timestamps[i + 1]) <= 0)
             violations == SelectSeq([i \in 1..n |-> i - 1], Violates)
         IN  [ok |-> Len(violations) = 0, violations |-> violations]

\* check_velocity (validation.py lines 6-33): the 0-based indices of the
\* segments whose speed exceeds max_velocity; a segment with dt <= 0 is
\* skipped
check_velocity(positions, timestamps, max_velocity) ==
    IF Len(positions) < 2 \/ Len(timestamps) < 2
    THEN [ok |-> TRUE, violations |-> <<>>]
    ELSE LET n == Min2(Len(positions), Len(timestamps)) - 1
             Violates(i) ==
                 LET dt == FSub(timestamps[i + 2], timestamps[i + 1])
                 IN  /\ ~ (dt <= 0)
                     /\ FDiv(StepLength(positions, i + 1), dt) > max_velocity
             violations == SelectSeq([i \in 1..n |-> i - 1], Violates)
         IN  [ok |-> Len(violations) = 0, violations |-> violations]

\* check_acceleration (validation.py lines 36-64): the 0-based indices of
\* the interior vertices where the change of velocity over the mean of the
\* two time steps exceeds max_acceleration; a vertex with dt1 <= 0 or
\* dt2 <= 0 is skipped
check_acceleration(positions, timestamps, max_acceleration) ==
    IF Len(positions) < 3 \/ Len(timestamps) < 3
    THEN [ok |-> TRUE, violations |-> <<>>]
    ELSE LET n == Min2(Len(positions), Len(timestamps))
             Violates(i) ==
                 LET dt1 == FSub(timestamps[i + 1], timestamps[i])
                     dt2 == FSub(timestamps[i + 2], timestamps[i + 1])
                     v1x == FDiv(FSub(positions[i + 1][1], positions[i][1]), dt1)
                     v1y == FDiv(FSub(positions[i + 1][2], positions[i][2]), dt1)
                     v2x == FDiv(FSub(positions[i + 2][1], positions[i + 1][1]), dt2)
                     v2y == FDiv(FSub(positions[i + 2][2], positions[i + 1][2]), dt2)
                     half == FDiv(FAdd(dt1, dt2), 2 * FScale)
                     a == Norm(FDiv(FSub(v2x, v1x), half), FDiv(FSub(v2y, v1y), half))
                 IN  /\ ~ (dt1 <= 0 \/ dt2 <= 0)
                     /\ a > max_acceleration
             violations == SelectSeq([i \in 1..(n - 2) |-> i], Violates)
         IN  [ok |-> Len(violations) = 0, violations |-> violations]

\* the positions the timestamps are derived from: clamped when bounds are
\* given (stage4_constraints.py lines 38-46)
Clamped(positions, bounds, safety_margin) ==
    IF bounds # <<>>
    THEN clamp_to_bounds(positions, bounds[1], bounds[2], bounds[3], bounds[4],
                         safety_margin)
    ELSE positions

\* the report (stage4_constraints.py lines 27, 47, 55-62): one entry for the
\* clamping, one for each failed check with its first 10 indices
Report(bounds, vel, acc) ==
    (IF bounds # <<>> THEN <<[kind |-> "bounds", indices |-> <<>>]>> ELSE <<>>)
    \o (IF ~ vel.ok
        THEN <<[kind |-> "velocity", indices |-> Prefix(vel.violations, 10)]>>
        ELSE <<>>)
    \o (IF ~ acc.ok
        THEN <<[kind |-> "acceleration", indices |-> Prefix(acc.violations, 10)]>>
        ELSE <<>>)

\* the waypoints (stage4_constraints.py lines 64-73)
Waypoints(positions, timestamps, max_velocity, default_altitude) ==
    [i \in 1..Len(positions) |->
        [x |-> positions[i][1], y |-> positions[i][2], z |-> default_altitude,
         velocity |-> max_velocity, timestamp |-> timestamps[i]]]

\* the result for no positions (stage4_constraints.py lines 28-34)
EmptyResult ==
    [waypoints |-> <<>>, velocity_profile |-> <<>>, validation_report |-> <<>>,
     duration_seconds |-> 0]

\* a mutant of enforce_constraints: a failed check withholds the waypoints
enforce_constraints_strict(positions, max_velocity, max_acceleration, default_altitude, bounds, safety_margin) ==
    IF positions = <<>>
    THEN EmptyResult
    ELSE LET pos == Clamped(positions, bounds, safety_margin)
             timestamps == Timestamps(pos, max_velocity)
             vel == check_velocity(pos, timestamps, max_velocity)
             acc == check_acceleration(pos, timestamps, max_acceleration)
         IN  [waypoints |->
                 IF vel.ok /\ acc.ok
                 THEN Waypoints(pos, timestamps, max_velocity, default_altitude)
                 ELSE <<>>,
              velocity_profile |-> [i \in 1..Len(pos) |-> max_velocity],
              validation_report |-> Report(bounds, vel, acc),
              duration_seconds |-> timestamps[Len(timestamps)]]

\* a mutant of enforce_constraints: the clamping is reported before the
\* test for an empty input
enforce_constraints_clamp_first(positions, max_velocity, max_acceleration, default_altitude, bounds, safety_margin) ==
    LET pos == Clamped(positions, bounds, safety_margin)
        timestamps == Timestamps(pos, max_velocity)
        vel == check_velocity(pos, timestamps, max_velocity)
        acc == check_acceleration(pos, timestamps, max_acceleration)
    IN  IF positions = <<>>
        THEN [EmptyResult EXCEPT
                !.validation_report = Report(bounds, [ok |-> TRUE],
                                             [ok |-> TRUE])]
        ELSE [waypoints |->
                 Waypoints(pos, timestamps, max_velocity, default_altitude),
              velocity_profile |-> [i \in 1..Len(pos) |-> max_velocity],
              validation_report |-> Report(bounds, vel, acc),
              duration_seconds |-> timestamps[Len(timestamps)]]

\* enforce_constraints (stage4_constraints.py lines 13-84), called with an
\* array of points.  The metadata's max_velocity and max_acceleration echo
\* the arguments and are left out; duration_seconds is the last timestamp.
enforce_constraints(positions, max_velocity, max_acceleration, default_altitude, bounds, safety_margin) ==
    IF positions = <<>>
    THEN EmptyResult
    ELSE LET pos == Clamped(positions, bounds, safety_margin)
             timestamps == Timestamps(pos, max_velocity)
             vel == check_velocity(pos, timestamps, max_velocity)
             acc == check_acceleration(pos, timestamps, max_acceleration)
         IN  [waypoints |->
                 Waypoints(pos, timestamps, max_velocity, default_altitude),
              velocity_profile |-> [i \in 1..Len(pos) |-> max_velocity],
              validation_report |-> Report(bounds, vel, acc),
              duration_seconds |-> timestamps[Len(timestamps)]]

\* the points of the validator's inputs: whole units
EcPoints == {<<x * FScale, y * FScale>> : x \in {0, 1, 3}, y \in {0, 1}}

\* max_velocity > 0: 1.0 and 3.0
MaxVelocities == {FScale, 3 * FScale}

\* max_acceleration > 0: 1.0 and 64.0
MaxAccelerations == {FScale, 64 * FScale}

\* bounds: none, the box of the points, a narrow box, and a box with
\* min_x > max_x
BoundsArgs ==
    {<<>>,
     <<0, 0, 3 * FScale, FScale>>,
     <<FScale, 0, 2 * FScale, FScale>>,
     <<2 * FScale, 0, FScale, FScale>>}

\* margins: -0.5, 0, 0.5 and 1.5
Margins == {- (FScale \div 2), 0, FScale \div 2, 3 * (FScale \div 2)}

EcInit ==
    /\ ec_positions \in SeqsUpTo(EcPoints, MaxEcLen)
    /\ ec_max_velocity \in MaxVelocities
    /\ ec_max_acceleration \in MaxAccelerations
    /\ ec_bounds \in BoundsArgs
    /\ ec_margin \in Margins
    /\ ec_clamped = <<>>
    /\ ec_result = EmptyResult
    /\ ec_pc = "call"

\* the validator is not in use
EcIdle ==
    /\ ec_positions = <<>>
    /\ ec_max_velocity = FScale
    /\ ec_max_acceleration = FScale
    /\ ec_bounds = <<>>
    /\ ec_margin = 0
    /\ ec_clamped = <<>>
    /\ ec_result = EmptyResult
    /\ ec_pc = "idle"

\* a direct call of clamp_to_bounds
ClampToBounds ==
    /\ ec_pc = "call"
    /\ ec_bounds # <<>>
    /\ ec_clamped' = clamp_to_bounds(ec_positions, ec_bounds[1], ec_bounds[2],
                                     ec_bounds[3], ec_bounds[4], ec_margin)
    /\ ec_pc' = "clamped"
    /\ UNCHANGED <<ec_positions, ec_max_velocity, ec_max_acceleration,
                   ec_bounds, ec_margin, ec_result>>
    /\ UNCHANGED ecFrame

\* a call of enforce_constraints
EnforceConstraints ==
    /\ ec_pc = "call"
    /\ ec_result' = enforce_constraints(ec_positions, ec_max_velocity,
                                        ec_max_acceleration, DefaultAltitude,
                                        ec_bounds, ec_margin)
    /\ ec_pc' = "done"
    /\ UNCHANGED <<ec_positions, ec_max_velocity, ec_max_acceleration,
                   ec_bounds, ec_margin, ec_clamped>>
    /\ UNCHANGED ecFrame

EcNext == ClampToBounds \/ EnforceConstraints

(***************************************************************************)
(* A direct call of check_velocity (utils/validation.py) with positions    *)
(* and timestamps of the caller's choice.                                  *)
(***************************************************************************)
\* positions: 0.0, 1.0 and 3.5 on the x axis, 1.0 on the y axis
CvPoints == {<<0, 0>>, <<FScale, 0>>, <<7 * (FScale \div 2), 0>>, <<0, FScale>>}

\* timestamps: 0.0, 1.0, 1.125 and 2.25
CvTimes == {0, FScale, FScale + FScale \div 8, 2 * FScale + FScale \div 4}

CvInit ==
    /\ cv_positions \in SeqsUpTo(CvPoints, MaxEcLen)
    /\ cv_timestamps \in SeqsUpTo(CvTimes, MaxEcLen)
    /\ cv_max_velocity \in MaxVelocities
    /\ cv_result = [ok |-> TRUE, violations |-> <<>>]
    /\ cv_pc = "call"

CvIdle ==
    /\ cv_positions = <<>>
    /\ cv_timestamps = <<>>
    /\ cv_max_velocity = FScale
    /\ cv_result = [ok |-> TRUE, violations |-> <<>>]
    /\ cv_pc = "idle"

CheckVelocity ==
    /\ cv_pc = "call"
    /\ cv_result' = check_velocity(cv_positions, cv_timestamps, cv_max_velocity)
    /\ cv_pc' = "done"
    /\ UNCHANGED <<cv_positions, cv_timestamps, cv_max_velocity>>
    /\ UNCHANGED cvFrame

(***************************************************************************)
(* Show assembly: _waypoints_to_trajectory, _drone_offsets_poisson,        *)
(* _build_skybrush_structure and export_skybrush                           *)
(* (pipeline/stage5_skybrush.py), with bounding_box and centroid           *)
(* (utils/geometry.py).  Coordinates are floats counted in quanta, as in   *)
(* the validator.  _drone_offsets_poisson calls poisson_disk_2d without an *)
(* rng argument, so the sampler draws from a random.Random() of its own:   *)
(* the call runs the area sampler's actions, every draw a free choice.     *)
(***************************************************************************)
\* most drones asked for
MaxDrones == 3

\* a mutant of _waypoints_to_trajectory: only the first point is moved in y
waypoints_to_trajectory_first_only(waypoints, offset_x, offset_y, offset_z) ==
    [j \in 1..Len(waypoints) |->
        [time |-> waypoints[j].timestamp,
         x |-> FAdd(waypoints[j].x, offset_x),
         y |-> IF j = 1 THEN FAdd(waypoints[j].y, offset_y) ELSE waypoints[j].y,
         z |-> FAdd(waypoints[j].z, offset_z),
         velocity |-> waypoints[j].velocity]]

\* _waypoints_to_trajectory (lines 13-29)
waypoints_to_trajectory(waypoints, offset_x, offset_y, offset_z) ==
    [j \in 1..Len(waypoints) |->
        [time |-> waypoints[j].timestamp,
         x |-> FAdd(waypoints[j].x, offset_x),
         y |-> FAdd(waypoints[j].y, offset_y),
         z |-> FAdd(waypoints[j].z, offset_z),
         velocity |-> waypoints[j].velocity]]

\* the least and the greatest of a non-empty set of numbers
MinOf(S) == CHOOSE m \in S : \A v \in S : m <= v

MaxOf(S) == CHOOSE m \in S : \A v \in S : m >= v

\* bounding_box (utils/geometry.py lines 42-51)
bounding_box(points) ==
    IF points = <<>>
    THEN <<0, 0, 0, 0>>
    ELSE <<MinOf({points[i][1] : i \in 1..Len(points)}),
           MinOf({points[i][2] : i \in 1..Len(points)}),
           MaxOf({points[i][1] : i \in 1..Len(points)}),
           MaxOf({points[i][2] : i \in 1..Len(points)})>>

\* the floating-point sum of the first n elements of s
RECURSIVE FSum(_, _)
FSum(s, n) == IF n = 0 THEN 0 ELSE FAdd(FSum(s, n - 1), s[n])

\* np.mean: the floating-point sum divided by the count
Mean(s) == FRound(FSum(s, Len(s)), Len(s))

\* centroid (utils/geometry.py lines 54-61)
centroid(points) ==
    IF points = <<>>
    THEN <<0, 0>>
    ELSE <<Mean([i \in 1..Len(points) |-> points[i][1]]),
           Mean([i \in 1..Len(points) |-> points[i][2]])>>

\* a mutant of the padding: the missing offsets are (0.0, 0.0)
PadOffsetsZero(offsets, n) ==
    [i \in 1..Max2(Len(offsets), n) |->
        IF i <= Len(offsets) THEN offsets[i] ELSE <<0, 0>>]

\* lines 68-69: while len(offsets) < number_of_drones the last offset is
\* appended again
PadOffsets(offsets, n) ==
    [i \in 1..Max2(Len(offsets), n) |->
        IF i <= Len(offsets)
        THEN offsets[i]
        ELSE IF offsets = <<>> THEN <<0, 0>> ELSE offsets[Len(offsets)]]

\* lines 50-60: the arguments of the poisson_disk_2d call
SamplerArgs(bounding_box_xy, number_of_drones, drone_spacing, margin, expand) ==
    [min_x |-> FSub(bounding_box_xy[1], expand),
     min_y |-> FSub(bounding_box_xy[2], expand),
     max_x |-> FAdd(bounding_box_xy[3], expand),
     max_y |-> FAdd(bounding_box_xy[4], expand),
     min_distance |-> drone_spacing,
     n_points |-> number_of_drones,
     margin |-> margin]

\* _drone_offsets_poisson (lines 32-70) for number_of_drones >= 2, from the
\* positions that the call of poisson_disk_2d returned
drone_offsets_poisson(number_of_drones, waypoints_xy, positions) ==
    IF positions = <<>>
    THEN [i \in 1..number_of_drones |-> <<0, 0>>]
    ELSE LET path_c == IF waypoints_xy # <<>>
                       THEN centroid(waypoints_xy)
                       ELSE <<0, 0>>
             offsets == [i \in 1..Len(positions) |->
                            <<FSub(positions[i][1], path_c[1]),
                              FSub(positions[i][2], path_c[2])>>]
         IN  Prefix(PadOffsets(offsets, number_of_drones), number_of_drones)

\* line 90: waypoints_xy
WaypointsXY(waypoints) ==
    [j \in 1..Len(waypoints) |-> <<waypoints[j].x, waypoints[j].y>>]

\* lines 91-96: the bounding box used for the placement
PlacementBox(waypoints, bounding_box_xy) ==
    IF bounding_box_xy # <<>>
    THEN bounding_box_xy
    ELSE IF waypoints # <<>>
         THEN bounding_box(WaypointsXY(waypoints))
         ELSE <<0, 0, 0, 0>>

\* lines 88-89 and 110-130: the show structure built from the offsets
build_skybrush_structure(waypoints, number_of_drones, drone_spacing, offsets) ==
    LET n == Max2(1, number_of_drones)
        off(i) == IF i <= Len(offsets) THEN offsets[i] ELSE <<0, 0>>
    IN  [version |-> 1,
         duration |-> IF waypoints # <<>>
                      THEN waypoints[Len(waypoints)].timestamp
                      ELSE 0,
         number_of_drones |-> n,
         drone_spacing |-> drone_spacing,
         trajectories |->
            [i \in 1..n |->
                [type |-> "trajectory",
                 points |-> waypoints_to_trajectory(waypoints, off(i)[1],
                                                    off(i)[2], 0),
                 drone_index |-> i - 1]]]

\* export_skybrush (lines 133-167): the FlightShow
FlightShow(waypoints, number_of_drones, drone_spacing, offsets) ==
    [waypoints |-> waypoints,
     skybrush_format |-> build_skybrush_structure(waypoints, number_of_drones,
                                                  drone_spacing, offsets)]

NoShow == [waypoints |-> <<>>, skybrush_format |-> <<>>]

\* the positions whose waypoints are assembled, as enforce_constraints
\* returns them at max_velocity 1.0 and the default altitude
SkPositions ==
    {<<>>, <<(<<0, 0>>)>>, <<(<<0, 0>>), <<2, 0>>>>,
     <<(<<1, 0>>), <<2, 2>>, <<0, 2>>>>}

SkWaypoints ==
    {Waypoints(p, Timestamps(p, FScale), FScale, DefaultAltitude) :
        p \in SkPositions}

SkInit ==
    /\ sk_waypoints \in SkWaypoints
    /\ sk_drones \in 0..MaxDrones
    /\ sk_spacing \in {0, 2}
    /\ sk_bbox \in {<<>>, <<0, 0, 2, 2>>}
    /\ sk_margin \in {0, 1}
    /\ sk_expand \in {0, 1}
    /\ sk_expand <= sk_margin
    /\ sk_offsets = <<>>
    /\ sk_show = NoShow
    /\ sk_first = [offsets |-> <<>>, show |-> NoShow]
    /\ sk_calls = 1
    /\ sk_pc = "call"

SkIdle ==
    /\ sk_waypoints = <<>>
    /\ sk_drones = 1
    /\ sk_spacing = 0
    /\ sk_bbox = <<>>
    /\ sk_margin = 0
    /\ sk_expand = 0
    /\ sk_offsets = <<>>
    /\ sk_show = NoShow
    /\ sk_first = [offsets |-> <<>>, show |-> NoShow]
    /\ sk_calls = 0
    /\ sk_pc = "idle"

\* export_skybrush up to the placement: with one drone the offsets are
\* [(0.0, 0.0)] and the show is built (lines 98-99); with more,
\* _drone_offsets_poisson calls poisson_disk_2d (lines 101-108, 50-60)
SkBegin ==
    /\ sk_pc = "call"
    /\ IF Max2(1, sk_drones) = 1
       THEN /\ sk_offsets' = <<(<<0, 0>>)>>
            /\ sk_show' = FlightShow(sk_waypoints, sk_drones, sk_spacing,
                                     <<(<<0, 0>>)>>)
            /\ sk_pc' = "done"
            /\ UNCHANGED areaVars
       ELSE /\ a_args' = SamplerArgs(PlacementBox(sk_waypoints, sk_bbox),
                                     Max2(1, sk_drones), sk_spacing,
                                     sk_margin, sk_expand)
            /\ grid' = <<>>
            /\ active' = <<>>
            /\ a_pc' = "entry"
            /\ a_out' = <<>>
            /\ sk_pc' = "sampling"
            /\ UNCHANGED <<sk_offsets, sk_show>>
    /\ UNCHANGED <<sk_waypoints, sk_drones, sk_spacing, sk_bbox, sk_margin,
                   sk_expand, sk_first, sk_calls>>
    /\ UNCHANGED skAreaFrame

\* poisson_disk_2d has returned: the offsets are computed (lines 61-70) and
\* the show is built (lines 110-130)
SkFinish ==
    /\ sk_pc = "sampling"
    /\ a_pc = "done"
    /\ LET offsets == drone_offsets_poisson(Max2(1, sk_drones),
                                            WaypointsXY(sk_waypoints), a_out)
       IN  /\ sk_offsets' = offsets
           /\ sk_show' = FlightShow(sk_waypoints, sk_drones, sk_spacing, offsets)
    /\ sk_pc' = "done"
    /\ UNCHANGED areaVars
    /\ UNCHANGED <<sk_waypoints, sk_drones, sk_spacing, sk_bbox, sk_margin,
                   sk_expand, sk_first, sk_calls>>
    /\ UNCHANGED skAreaFrame

\* the caller keeps what the first call returned and calls export_skybrush
\* again with the same arguments
SkAgain ==
    /\ sk_pc = "done"
    /\ sk_calls = 1
    /\ sk_first' = [offsets |-> sk_offsets, show |-> sk_show]
    /\ sk_calls' = 2
    /\ sk_offsets' = <<>>
    /\ sk_show' = NoShow
    /\ sk_pc' = "call"
    /\ UNCHANGED <<sk_waypoints, sk_drones, sk_spacing, sk_bbox, sk_margin,
                   sk_expand>>
    /\ UNCHANGED skFrame

\* one call of export_skybrush
SkNext ==
    \/ SkBegin
    \/ AreaReject
    \/ AreaSeed
    \/ AreaAccept
    \/ AreaGiveUp
    \/ AreaReturn
    \/ SkFinish

\* two calls of export_skybrush with the same arguments, the placement box
\* given by the caller, for one or two drones
SkTwiceInit ==
    /\ SkInit
    /\ sk_bbox # <<>>
    /\ sk_drones <= 2

SkTwiceNext ==
    \/ SkNext
    \/ SkAgain

(***************************************************************************)
(* Points-attribute parser: _parse_points_attr                             *)
(* (pipeline/stage2_geometry.py).  A string is a sequence of characters;   *)
(* a number is written with the digits 1 and 2, and "x" stands for any     *)
(* character that is neither a digit, a comma nor white space.  The        *)
(* coordinates of the points are floats counted in quanta, as in the       *)
(* validator.                                                              *)
(***************************************************************************)
\* longest points attribute
MaxAttrLen == 7

Digits == {"1", "2"}

AttrChars == Digits \cup {",", " ", "x"}

\* str.replace(",", " ")
ReplaceCommas(s) == [i \in 1..Len(s) |-> IF s[i] = "," THEN " " ELSE s[i]]

\* str.split(): the maximal runs of characters that are not white space;
\* cur is the run being read
RECURSIVE SplitFrom(_, _, _)
SplitFrom(s, i, cur) ==
    IF i > Len(s)
    THEN IF cur = <<>> THEN <<>> ELSE <<cur>>
    ELSE IF s[i] = " "
         THEN (IF cur = <<>> THEN <<>> ELSE <<cur>>) \o SplitFrom(s, i + 1, <<>>)
         ELSE SplitFrom(s, i + 1, Append(cur, s[i]))

Split(s) == SplitFrom(s, 1, <<>>)

\* float(v) raises ValueError unless v is a number
IsNumber(v) == v # <<>> /\ \A i \in 1..Len(v) : v[i] \in Digits

DigitValue(c) == IF c = "1" THEN 1 ELSE 2

\* the integer that the digits of v write
RECURSIVE Decimal(_)
Decimal(v) ==
    IF Len(v) = 1
    THEN DigitValue(v[1])
    ELSE 10 * Decimal(SubSeq(v, 1, Len(v) - 1)) + DigitValue(v[Len(v)])

\* float(v) for a number v: the nearest float, in quanta
Float(v) == FRound(Decimal(v) * FScale, 1)

\* lines 89-91: a part with two values or more is read by float() outside
\* the try block, so a value that is not a number raises ValueError
PartRaises(part) ==
    LET vals == Split(part)
    IN  Len(vals) >= 2 /\ ~ (IsNumber(vals[1]) /\ IsNumber(vals[2]))

\* lines 86-100: the body of the loop for one part; a part with two values
\* gives the point of its first two values, a part with one value x gives
\* (x, y of the last point), or (x, 0.0) for the first point; a part that is
\* not a number gives nothing
AddPart(points, part) ==
    LET vals == Split(part)
    IN  IF Len(vals) >= 2
        THEN Append(points, <<Float(vals[1]), Float(vals[2])>>)
        ELSE IF Len(vals) = 1 /\ IsNumber(vals[1])
             THEN IF points # <<>>
                  THEN Append(points, <<Float(vals[1]), points[Len(points)][2]>>)
                  ELSE Append(points, <<Float(vals[1]), 0>>)
             ELSE points

\* the loop over the first n parts
RECURSIVE ParseParts(_, _)
ParseParts(parts, n) ==
    IF n = 0 THEN <<>> ELSE AddPart(ParseParts(parts, n - 1), parts[n])

\* the parts of the loop: points_str.replace(",", " ").split()
Parts(points_str) == Split(ReplaceCommas(points_str))

\* the call leaves by a ValueError
ParseRaises(points_str) ==
    \E n \in 1..Len(Parts(points_str)) : PartRaises(Parts(points_str)[n])

\* _parse_points_attr (lines 82-101): the array returned
parse_points_attr(points_str) ==
    ParseParts(Parts(points_str), Len(Parts(points_str)))

PpInit ==
    /\ pp_str \in SeqsUpTo(AttrChars, MaxAttrLen)
    /\ pp_out = <<>>
    /\ pp_pc = "call"

PpIdle ==
    /\ pp_str = <<>>
    /\ pp_out = <<>>
    /\ pp_pc = "idle"

ParsePoints ==
    /\ pp_pc = "call"
    /\ IF ParseRaises(pp_str)
       THEN /\ pp_out' = <<>>
            /\ pp_pc' = "raised"
       ELSE /\ pp_out' = parse_points_attr(pp_str)
            /\ pp_pc' = "done"
    /\ UNCHANGED pp_str
    /\ UNCHANGED ppFrame

(***************************************************************************)
(* Extractor: _extract_paths_from_svg (pipeline/stage2_geometry.py).       *)
(* A markup is either not well-formed XML, or the sequence of its elements *)
(* in document order, each with its tag and attributes.  Path elements,    *)
(* whose d attribute is read by the svgpathtools library, are not among    *)
(* the elements of the model.                                              *)
(***************************************************************************)
AttrNames == {"points", "cx", "cy", "r", "x", "y", "width", "height"}

\* elem.get(name) is None
Absent == [present |-> FALSE, text |-> <<>>]

Text(s) == [present |-> TRUE, text |-> s]

\* an element with the attributes given, the others absent
Elem(tag, given) ==
    [tag |-> tag,
     attrs |-> [a \in AttrNames |-> IF a \in DOMAIN given THEN given[a] ELSE Absent]]

\* float(elem.get(name, default)) raises ValueError
NumberRaises(elem, name) ==
    elem.attrs[name].present /\ ~ IsNumber(elem.attrs[name].text)

\* float(elem.get(name, default)), the default counted in units
Number(elem, name, default) ==
    IF elem.attrs[name].present
    THEN Float(elem.attrs[name].text)
    ELSE default * FScale

\* lines 64-78: the conversions of a circle or a rect are outside any try
ElemRaises(elem) ==
    \/ /\ elem.tag = "circle"
       /\ \E a \in {"cx", "cy", "r"} : NumberRaises(elem, a)
    \/ /\ elem.tag = "rect"
       /\ \E a \in {"x", "y", "width", "height"} : NumberRaises(elem, a)
    \/ /\ elem.tag \in {"polygon", "polyline"}
       /\ elem.attrs["points"].present
       /\ ParseRaises(elem.attrs["points"].text)

\* n = max(16, int(2 * np.pi * r / 2)): 16 for the radii of the model, which
\* are below 17 / pi
CircleCount == 16

\* np.cos(t) for t in np.linspace(0, 2 * np.pi, 16, endpoint=False): the
\* cosines of the multiples of 22.5 degrees as floats, in quanta of 1 / 8
CosTable == <<8, 7, 6, 3, 0, -3, -6, -7, -8, -7, -6, -3, 0, 3, 6, 7>>

\* np.sin(t): the cosine a quarter turn earlier
SinTable == [k \in 1..CircleCount |-> CosTable[((k + 11) % CircleCount) + 1]]

\* lines 65-71: the points of a circle, cx + r * np.cos(t), cy + r * np.sin(t)
CirclePoints(cx, cy, r) ==
    [k \in 1..CircleCount |->
        <<FAdd(cx, FMul(r, CosTable[k])), FAdd(cy, FMul(r, SinTable[k]))>>]

\* lines 73-77: the corners of a rect, the first repeated at the end
RectPoints(x, y, w, h) ==
    <<(<<x, y>>), <<FAdd(x, w), y>>, <<FAdd(x, w), FAdd(y, h)>>,
      <<x, FAdd(y, h)>>, <<x, y>>>>

\* lines 45-78: what one element appends to results
ElemResults(elem) ==
    IF elem.tag \in {"polygon", "polyline"}
    THEN IF /\ elem.attrs["points"].present
            /\ elem.attrs["points"].text # <<>>
            /\ Len(parse_points_attr(elem.attrs["points"].text)) >= 2
         THEN <<[pts |-> parse_points_attr(elem.attrs["points"].text),
                 closed |-> elem.tag = "polygon"]>>
         ELSE <<>>
    ELSE IF elem.tag = "circle"
    THEN <<[pts |-> CirclePoints(Number(elem, "cx", 0), Number(elem, "cy", 0),
                                 Number(elem, "r", 1)),
            closed |-> TRUE]>>
    ELSE IF elem.tag = "rect"
    THEN <<[pts |-> RectPoints(Number(elem, "x", 0), Number(elem, "y", 0),
                               Number(elem, "width", 1),
                               Number(elem, "height", 1)),
            closed |-> TRUE]>>
    ELSE <<>>

\* the results of the first n elements
RECURSIVE ResultsUpTo(_, _)
ResultsUpTo(elems, n) ==
    IF n = 0
    THEN <<>>
    ELSE ResultsUpTo(elems, n - 1) \o ElemResults(elems[n])

\* the call leaves by a ValueError: ET.ParseError alone is caught (lines 38-41)
ExtractRaises(markup) ==
    /\ markup.well_formed
    /\ \E n \in 1..Len(markup.elems) : ElemRaises(markup.elems[n])

\* _extract_paths_from_svg (lines 33-79): the list returned
extract_paths_from_svg(markup) ==
    IF ~ markup.well_formed
    THEN <<>>
    ELSE ResultsUpTo(markup.elems, Len(markup.elems))

\* the values of a numeric attribute: none, "1", "2", "x" and ""
NumberAttrs == {Absent, Text(<<"1">>), Text(<<"2">>), Text(<<"x">>), Text(<<>>)}

\* the values of a points attribute: none, "", "1", "1,2", "1,2 2,1", "x,1 2"
PointsAttrs ==
    {Absent, Text(<<>>), Text(<<"1">>), Text(<<"1", ",", "2">>),
     Text(<<"1", ",", "2", " ", "2", ",", "1">>),
     Text(<<"x", ",", "1", " ", "2">>)}

\* the elements of the model's markups
Elems ==
    {Elem("svg", <<>>)}
      \cup {Elem(t, [points |-> p]) : t \in {"polygon", "polyline"},
                                      p \in PointsAttrs}
      \cup {Elem("circle", [cx |-> c, r |-> r]) : c \in NumberAttrs,
                                                  r \in NumberAttrs}
      \cup {Elem("rect", [x |-> c, width |-> w]) : c \in NumberAttrs,
                                                   w \in NumberAttrs}

\* most elements of a markup
MaxElems == 2

ExInit ==
    /\ ex_markup \in
         {[well_formed |-> FALSE, elems |-> <<>>]}
           \cup {[well_formed |-> TRUE, elems |-> e] :
                    e \in SeqsUpTo(Elems, MaxElems)}
    /\ ex_results = <<>>
    /\ ex_pc = "call"

ExIdle ==
    /\ ex_markup = [well_formed |-> FALSE, elems |-> <<>>]
    /\ ex_results = <<>>
    /\ ex_pc = "idle"

\* a call of _extract_paths_from_svg: it returns ("done") or it leaves by
\* the exception ("raised")
Extract ==
    /\ ex_pc = "call"
    /\ IF ExtractRaises(ex_markup)
       THEN /\ ex_results' = <<>>
            /\ ex_pc' = "raised"
       ELSE /\ ex_results' = extract_paths_from_svg(ex_markup)
            /\ ex_pc' = "done"
    /\ UNCHANGED ex_markup
    /\ UNCHANGED exFrame

(***************************************************************************)
(* Geometry stage: process_geometry (pipeline/stage2_geometry.py) with     *)
(* normalize_coordinates (utils/geometry.py).                              *)
(***************************************************************************)
\* (min + max) / 2 in floating point
Midpoint(lo, hi) == FDiv(FAdd(lo, hi), 2 * FScale)

\* a mutant of the translation: the points are moved in x only
TranslatedXOnly(points, cx, cy) ==
    [i \in 1..Len(points) |-> <<FSub(points[i][1], cx), points[i][2]>>]

\* pts[:, 0] -= cx; pts[:, 1] -= cy
Translated(points, cx, cy) ==
    [i \in 1..Len(points) |-> <<FSub(points[i][1], cx), FSub(points[i][2], cy)>>]

\* pts *= scale_to_meters
Scaled(points, scale_to_meters) ==
    [i \in 1..Len(points) |->
        <<FMul(points[i][1], scale_to_meters),
          FMul(points[i][2], scale_to_meters)>>]

\* lines 78-82 of utils/geometry.py: pts moved by the centre of its box
Centred(pts, box) ==
    Translated(pts, Midpoint(box[1], box[3]), Midpoint(box[2], box[4]))

\* normalize_coordinates (utils/geometry.py lines 64-83)
normalize_coordinates(points, origin_center, scale_to_meters) ==
    IF points = <<>>
    THEN points
    ELSE IF origin_center
         THEN Centred(Scaled(points, scale_to_meters),
                      bounding_box(Scaled(points, scale_to_meters)))
         ELSE Scaled(points, scale_to_meters)

\* lines 127-139: a simplified path is kept when it has 2 points or more
KeptIfPath(pts, is_closed) ==
    IF Len(pts) < 2
    THEN <<>>
    ELSE <<[points |-> pts, is_closed |-> is_closed]>>

\* a mutant of the order of the stages: the path is simplified in the
\* extractor's coordinates and scaled afterwards
KeptPathSimplifiedFirst(raw, simplification_tolerance, scale_to_meters) ==
    IF Len(raw.pts) < 2
    THEN <<>>
    ELSE KeptIfPath(normalize_coordinates(
                        douglas_peucker(raw.pts, simplification_tolerance),
                        FALSE, scale_to_meters),
                    raw.closed)

\* lines 118-139: what one raw path adds to paths
KeptPath(raw, simplification_tolerance, scale_to_meters) ==
    IF Len(raw.pts) < 2
    THEN <<>>
    ELSE KeptIfPath(douglas_peucker(
                        normalize_coordinates(raw.pts, FALSE, scale_to_meters),
                        simplification_tolerance),
                    raw.closed)

\* the paths kept of the first n raw paths
RECURSIVE KeptPaths(_, _, _, _)
KeptPaths(raw_paths, n, simplification_tolerance, scale_to_meters) ==
    IF n = 0
    THEN <<>>
    ELSE KeptPaths(raw_paths, n - 1, simplification_tolerance, scale_to_meters)
           \o KeptPath(raw_paths[n], simplification_tolerance, scale_to_meters)

\* np.vstack(all_points): the points of the first n paths
RECURSIVE Combined(_, _)
Combined(paths, n) ==
    IF n = 0 THEN <<>> ELSE Combined(paths, n - 1) \o paths[n].points

\* lines 141-146: the result when no path is kept
NoGeometry == [paths |-> <<>>, bounding_box |-> <<0, 0, 0, 0>>, path_count |-> 0]

\* lines 150-157: the paths and their box moved by <<cx, cy>>
RecentredResult(paths, box, cx, cy) ==
    [paths |-> [i \in 1..Len(paths) |->
                  [points |-> Translated(paths[i].points, cx, cy),
                   is_closed |-> paths[i].is_closed]],
     bounding_box |-> <<FSub(box[1], cx), FSub(box[2], cy),
                        FSub(box[3], cx), FSub(box[4], cy)>>,
     path_count |-> Len(paths)]

\* lines 148-171: the result for the kept paths and their union box
GeometryResult(paths, box, origin_center) ==
    IF origin_center
    THEN RecentredResult(paths, box, Midpoint(box[1], box[3]),
                         Midpoint(box[2], box[4]))
    ELSE [paths |-> paths, bounding_box |-> box, path_count |-> Len(paths)]

\* lines 141-171: the result for the kept paths
ResultFor(paths, origin_center) ==
    IF paths = <<>>
    THEN NoGeometry
    ELSE GeometryResult(paths, bounding_box(Combined(paths, Len(paths))),
                        origin_center)

\* process_geometry (lines 104-171) from the raw paths of the extractor
process_geometry(raw_paths, simplification_tolerance, origin_center, scale_to_meters) ==
    ResultFor(KeptPaths(raw_paths, Len(raw_paths), simplification_tolerance,
                        scale_to_meters),
              origin_center)

\* the elements of the markups handed to the stage: polylines "1 2" and
\* "2 1 12", the polygon "1,2 2,1", a rect, circles, and an svg element
PgElems ==
    {Elem("svg", <<>>),
     Elem("polyline", [points |-> Text(<<"1", " ", "2">>)]),
     Elem("polyline", [points |-> Text(<<"2", " ", "1", " ", "1", "2">>)]),
     Elem("polygon", [points |-> Text(<<"1", ",", "2", " ", "2", ",", "1">>)]),
     Elem("rect", [x |-> Text(<<"1">>), width |-> Text(<<"2">>)])}
      \cup {Elem("circle", [cx |-> c, cy |-> c, r |-> r]) :
                c \in {Absent, Text(<<"1">>)}, r \in {Absent, Text(<<"2">>)}}

PgMarkups ==
    {[well_formed |-> FALSE, elems |-> <<>>]}
      \cup {[well_formed |-> TRUE, elems |-> e] : e \in SeqsUpTo(PgElems, MaxElems)}

PgInit ==
    /\ pg_markup \in PgMarkups
    /\ pg_tolerance \in {0, FScale \div 2}
    /\ pg_origin_center \in BOOLEAN
    /\ pg_scale \in {FScale, 3 * (FScale \div 8)}
    /\ pg_result = NoGeometry
    /\ pg_pc = "call"

PgIdle ==
    /\ pg_markup = [well_formed |-> FALSE, elems |-> <<>>]
    /\ pg_tolerance = 0
    /\ pg_origin_center = FALSE
    /\ pg_scale = FScale
    /\ pg_result = NoGeometry
    /\ pg_pc = "idle"

\* a call of process_geometry: an exception of the extractor leaves the call
ProcessGeometry ==
    /\ pg_pc = "call"
    /\ IF ExtractRaises(pg_markup)
       THEN /\ pg_result' = NoGeometry
            /\ pg_pc' = "raised"
       ELSE /\ pg_result' = process_geometry(extract_paths_from_svg(pg_markup),
                                             pg_tolerance, pg_origin_center,
                                             pg_scale)
            /\ pg_pc' = "done"
    /\ UNCHANGED <<pg_markup, pg_tolerance, pg_origin_center, pg_scale>>
    /\ UNCHANGED pgFrame

(***************************************************************************)
(* The stages in sequence: run_pipeline (pipeline/runner.py) from the      *)
(* geometry stage on.  The export stage is the assembly above, with the    *)
(* area sampler it calls.  All lengths are counted in quanta.              *)
(***************************************************************************)
\* np.asarray(positions, dtype=float) (stage4_constraints.py line 26): the
\* sampled points as floats
AsFloat(positions) ==
    [i \in 1..Len(positions) |->
        <<FRound(positions[i][1], positions[i][3]),
          FRound(positions[i][2], positions[i][3])>>]

\* the elements of the markups: an svg element, the polyline "1 2", the
\* polygon "1,2 2,1" and a rect, both closed and dropped by the geometry
\* stage
PlElems ==
    {Elem("svg", <<>>),
     Elem("polyline", [points |-> Text(<<"1", " ", "2">>)]),
     Elem("polygon", [points |-> Text(<<"1", ",", "2", " ", "2", ",", "1">>)]),
     Elem("rect", [x |-> Text(<<"1">>), width |-> Text(<<"2">>)]),
     Elem("circle", [cx |-> Text(<<"x">>)])}

PlMarkups ==
    {[well_formed |-> FALSE, elems |-> <<>>]}
      \cup {[well_formed |-> TRUE, elems |-> e] : e \in SeqsUpTo(PlElems, MaxElems)}

\* a third drone is placed only when no polyline is drawn: the placement
\* rectangle is then the expanded empty box
PlInit ==
    /\ pl_markup \in PlMarkups
    /\ pl_drones \in 1..MaxDrones
    /\ pl_spacing \in {0, 2}
    /\ pl_expand \in {0, 1}
    /\ pl_drones > 2 => \A i \in 1..Len(pl_markup.elems) :
                            pl_markup.elems[i].tag # "polyline"
    /\ pl_geom = NoGeometry
    /\ pl_positions = <<>>
    /\ pl_constraint = EmptyResult
    /\ pl_show = NoShow
    /\ pl_pc = "geometry"

PlIdle ==
    /\ pl_markup = [well_formed |-> FALSE, elems |-> <<>>]
    /\ pl_drones = 1
    /\ pl_spacing = 0
    /\ pl_expand = 0
    /\ pl_geom = NoGeometry
    /\ pl_positions = <<>>
    /\ pl_constraint = EmptyResult
    /\ pl_show = NoShow
    /\ pl_pc = "idle"

\* runner.py lines 39-45: the geometry stage, no tolerance, recentred, at a
\* scale of 0.375; an exception of the extractor ends the run
PlGeometry ==
    /\ pl_pc = "geometry"
    /\ IF ExtractRaises(pl_markup)
       THEN /\ pl_geom' = NoGeometry
            /\ pl_pc' = "raised"
       ELSE /\ pl_geom' = process_geometry(extract_paths_from_svg(pl_markup),
                                           0, TRUE, 3 * (FScale \div 8))
            /\ pl_pc' = "sampling"
    /\ UNCHANGED <<pl_markup, pl_drones, pl_spacing, pl_expand, pl_positions,
                   pl_constraint, pl_show>>
    /\ UNCHANGED plFrame

\* runner.py lines 47-52: the sampling stage at a min_distance of 2 quanta
PlSample ==
    /\ pl_pc = "sampling"
    /\ pl_positions' =
          AsFloat(sample_waypoints(
                      [i \in 1..Len(pl_geom.paths) |-> pl_geom.paths[i].points],
                      2))
    /\ pl_pc' = "constraints"
    /\ UNCHANGED <<pl_markup, pl_drones, pl_spacing, pl_expand, pl_geom,
                   pl_constraint, pl_show>>
    /\ UNCHANGED plFrame

\* runner.py lines 54-63: the constraint stage with the geometry's bounding
\* box as bounds, max_velocity and max_acceleration 1.0, no safety margin
PlConstraints ==
    /\ pl_pc = "constraints"
    /\ pl_constraint' = enforce_constraints(pl_positions, FScale, FScale,
                                            DefaultAltitude,
                                            pl_geom.bounding_box, 0)
    /\ pl_pc' = "export"
    /\ UNCHANGED <<pl_markup, pl_drones, pl_spacing, pl_expand, pl_geom,
                   pl_positions, pl_show>>
    /\ UNCHANGED plFrame

\* runner.py lines 65-75: export_skybrush is called with the waypoints, the
\* geometry's bounding box and no placement margin
PlExport ==
    /\ pl_pc = "export"
    /\ sk_waypoints' = pl_constraint.waypoints
    /\ sk_drones' = pl_drones
    /\ sk_spacing' = pl_spacing
    /\ sk_bbox' = pl_geom.bounding_box
    /\ sk_margin' = 0
    /\ sk_expand' = pl_expand
    /\ sk_calls' = 1
    /\ sk_pc' = "call"
    /\ pl_pc' = "exporting"
    /\ UNCHANGED <<sk_offsets, sk_show, sk_first>>
    /\ UNCHANGED <<pl_markup, pl_drones, pl_spacing, pl_expand, pl_geom,
                   pl_positions, pl_constraint, pl_show>>
    /\ UNCHANGED plSkFrame

\* export_skybrush has returned the FlightShow
PlReturn ==
    /\ pl_pc = "exporting"
    /\ sk_pc = "done"
    /\ pl_show' = sk_show
    /\ pl_pc' = "done"
    /\ UNCHANGED <<pl_markup, pl_drones, pl_spacing, pl_expand, pl_geom,
                   pl_positions, pl_constraint>>
    /\ UNCHANGED plFrame

PlNext ==
    \/ PlGeometry
    \/ PlSample
    \/ PlConstraints
    \/ PlExport
    \/ SkNext
    \/ PlReturn

(***************************************************************************)
(* Specifications.                                                         *)
(***************************************************************************)
\* the initial states of each specification: one component is called, the
\* others are idle
AreaStart == AreaInit /\ DpIdle /\ PathIdle /\ SampleIdle /\ EcIdle /\ CvIdle
    /\ SkIdle /\ PpIdle /\ ExIdle /\ PgIdle /\ PlIdle

AreaFairStart == AreaFairInit /\ DpIdle /\ PathIdle /\ SampleIdle /\ EcIdle
    /\ CvIdle /\ SkIdle /\ PpIdle /\ ExIdle /\ PgIdle /\ PlIdle

DpStart == DpInit /\ AreaIdle /\ PathIdle /\ SampleIdle /\ EcIdle /\ CvIdle
    /\ SkIdle /\ PpIdle /\ ExIdle /\ PgIdle /\ PlIdle

PathStart == PathInit /\ AreaIdle /\ DpIdle /\ SampleIdle /\ EcIdle /\ CvIdle
    /\ SkIdle /\ PpIdle /\ ExIdle /\ PgIdle /\ PlIdle

SampleStart == SampleInit /\ AreaIdle /\ DpIdle /\ PathIdle /\ EcIdle
    /\ CvIdle /\ SkIdle /\ PpIdle /\ ExIdle /\ PgIdle /\ PlIdle

EcStart == EcInit /\ AreaIdle /\ DpIdle /\ PathIdle /\ SampleIdle /\ CvIdle
    /\ SkIdle /\ PpIdle /\ ExIdle /\ PgIdle /\ PlIdle

CvStart == CvInit /\ AreaIdle /\ DpIdle /\ PathIdle /\ SampleIdle /\ EcIdle
    /\ SkIdle /\ PpIdle /\ ExIdle /\ PgIdle /\ PlIdle

SkStart == SkInit /\ AreaIdle /\ DpIdle /\ PathIdle /\ SampleIdle /\ EcIdle
    /\ CvIdle /\ PpIdle /\ ExIdle /\ PgIdle /\ PlIdle

SkTwiceStart == SkTwiceInit /\ AreaIdle /\ DpIdle /\ PathIdle /\ SampleIdle
    /\ EcIdle /\ CvIdle /\ PpIdle /\ ExIdle /\ PgIdle /\ PlIdle

PpStart == PpInit /\ AreaIdle /\ DpIdle /\ PathIdle /\ SampleIdle /\ EcIdle
    /\ CvIdle /\ SkIdle /\ ExIdle /\ PgIdle /\ PlIdle

ExStart == ExInit /\ AreaIdle /\ DpIdle /\ PathIdle /\ SampleIdle /\ EcIdle
    /\ CvIdle /\ SkIdle /\ PpIdle /\ PgIdle /\ PlIdle

PgStart == PgInit /\ AreaIdle /\ DpIdle /\ PathIdle /\ SampleIdle /\ EcIdle
    /\ CvIdle /\ SkIdle /\ PpIdle /\ ExIdle /\ PlIdle

\* a call of douglas_peucker, or a call of process_geometry
LoopsStart ==
    /\ \/ DpInit /\ PgIdle
       \/ DpIdle /\ PgInit
    /\ AreaIdle /\ PathIdle /\ SampleIdle /\ EcIdle /\ CvIdle /\ SkIdle
    /\ PpIdle /\ ExIdle /\ PlIdle

PlStart == PlInit /\ AreaIdle /\ DpIdle /\ PathIdle /\ SampleIdle /\ EcIdle
    /\ CvIdle /\ SkIdle /\ PpIdle /\ ExIdle /\ PgIdle

SpecArea == AreaStart /\ [][AreaNext]_vars

SpecSimplify == DpStart /\ [][Simplify]_vars

SpecPath == PathStart /\ [][SamplePath]_vars

SpecSample == SampleStart /\ [][SampleWaypoints]_vars

SpecConstraints == EcStart /\ [][EcNext]_vars

SpecVelocity == CvStart /\ [][CheckVelocity]_vars

SpecAssembly == SkStart /\ [][SkNext]_vars

SpecAssemblyTwice == SkTwiceStart /\ [][SkTwiceNext]_vars

SpecPoints == PpStart /\ [][ParsePoints]_vars

SpecExtract == ExStart /\ [][Extract]_vars

SpecGeometry == PgStart /\ [][ProcessGeometry]_vars

SpecPipeline == PlStart /\ [][PlNext]_vars

\* the sampler's code runs on until it returns: a step that can be taken is
\* taken
SpecAreaFair == AreaFairStart /\ [][AreaNext]_vars /\ WF_vars(AreaNext)

SpecClosedLoops == LoopsStart /\ [][Simplify \/ ProcessGeometry]_vars

(***************************************************************************)
(* Claims about the area sampler (checked under SpecArea).                 *)
(***************************************************************************)
PairwiseApart(pts, r) ==
    \A i, j \in 1..Len(pts) : i # j => Dist2(pts[i], pts[j]) >= r * r

\* C1: any two distinct points accepted by poisson_disk_2d, after the seed,
\* after every loop iteration and in the returned array, are at Euclidean
\* distance >= min_distance.
C1_Packing ==
    /\ PairwiseApart(Flatten(grid), a_args.min_distance)
    /\ PairwiseApart(a_out, a_args.min_distance)

\* C1 witness: a call has returned three accepted points
C1_Witness == a_pc = "done" /\ Len(a_out) >= 3

\* C2: poisson_disk_2d returns at most n_points points, every one of them in
\* the margin-shrunk rectangle, and none when that rectangle is empty.
C2_ResultRange ==
    a_pc = "done" =>
        /\ Len(a_out) <= a_args.n_points
        /\ \A i \in 1..Len(a_out) :
            /\ lo_x <= a_out[i][1] /\ a_out[i][1] <= hi_x
            /\ lo_y <= a_out[i][2] /\ a_out[i][2] <= hi_y
        /\ (lo_x >= hi_x \/ lo_y >= hi_y) => a_out = <<>>

\* C2 witness: a call with a margin has returned n_points >= 2 points, cut
\* from more accepted points than n_points
C2_Witness ==
    /\ a_pc = "done"
    /\ a_args.margin > 0
    /\ Len(a_out) = a_args.n_points
    /\ Len(a_out) >= 2
    /\ Len(Flatten(grid)) > a_args.n_points

(***************************************************************************)
(* Claims about the path simplifier (checked under SpecSimplify).          *)
(***************************************************************************)
\* point q is within tolerance of the line through a and b: the distance is
\* |cross| / |b - a|, compared on squares
PerpWithin(a, b, q, tolerance) ==
    /\ a # b
    /\ Cross(a, b, q) * Cross(a, b, q) <= tolerance * tolerance * Dist2(a, b)

\* every input point that is not among the returned points lies between two
\* consecutive returned points and within tolerance of the line through them
Fidelity ==
    \A i \in 1..Len(dp_points) :
        (\A j \in 1..Len(dp_out) : dp_out[j] # dp_points[i]) =>
            \E j \in 1..(Len(dp_kept) - 1) :
                /\ dp_kept[j] < i
                /\ i < dp_kept[j + 1]
                /\ PerpWithin(dp_points[dp_kept[j]], dp_points[dp_kept[j + 1]],
                              dp_points[i], dp_tolerance)

\* C5: for every input polyline and tolerance, every input point that is not
\* in the output of douglas_peucker lies between two consecutive output points
\* and within tolerance of the line through them.
C5_Fidelity == dp_pc = "done" => Fidelity

\* all interior points of the input are within tolerance of the first-last line
AllInteriorWithin ==
    \A i \in 2..(Len(dp_points) - 1) :
        Cross(dp_points[1], dp_points[Len(dp_points)], dp_points[i])
          * Cross(dp_points[1], dp_points[Len(dp_points)], dp_points[i])
        <= dp_tolerance * dp_tolerance
             * Dist2(dp_points[1], dp_points[Len(dp_points)])

\* C6 as stated: an input of >= 3 points whose first and last points differ
\* and whose interior points are all within tolerance of the first-last line
\* is returned as [first, last]; an input of fewer than 3 points is returned
\* unchanged.
C6_CollapseDiffer ==
    dp_pc = "done" =>
        /\ Len(dp_points) < 3 => dp_out = dp_points
        /\ (/\ Len(dp_points) >= 3
            /\ dp_points[1] # dp_points[Len(dp_points)]
            /\ AllInteriorWithin)
           => dp_out = <<dp_points[1], dp_points[Len(dp_points)]>>

\* C6 amended: the same for an input whose first and last points are at
\* least 1e-12 apart.
C6_CollapseApart ==
    dp_pc = "done" =>
        /\ Len(dp_points) < 3 => dp_out = dp_points
        /\ (/\ Len(dp_points) >= 3
            /\ Dist2(dp_points[1], dp_points[Len(dp_points)])
                 >= LineLenEps * LineLenEps
            /\ AllInteriorWithin)
           => dp_out = <<dp_points[1], dp_points[Len(dp_points)]>>

\* C6 witness: a four-point polyline whose farthest interior point is at
\* exactly the tolerance has been collapsed to its end points
C6_Witness ==
    /\ dp_pc = "done"
    /\ Len(dp_points) = 4
    /\ dp_tolerance > 0
    /\ Cross(dp_points[1], dp_points[4], dp_points[ArgMaxDist(dp_points, 1, 4)])
         * Cross(dp_points[1], dp_points[4], dp_points[ArgMaxDist(dp_points, 1, 4)])
       = dp_tolerance * dp_tolerance * Dist2(dp_points[1], dp_points[4])
    /\ dp_out = <<dp_points[1], dp_points[4]>>

(***************************************************************************)
(* Claims about the path sampler (checked under SpecPath and SpecSample).  *)
(***************************************************************************)
\* the Euclidean distance of rational points p and q is at least r
ApartAtLeast(p, q, r) ==
    RDist2Scaled(p, q) >= r * r * p[3] * p[3] * q[3] * q[3]

\* C3: in the output of poisson_disk_along_path every pair of consecutive
\* points other than the final pair is at Euclidean distance >= min_distance.
C3_PathSpacing ==
    p_pc = "done" =>
        \A i \in 1..(Len(p_out) - 2) :
            ApartAtLeast(p_out[i], p_out[i + 1], p_min_distance)

\* C3 witness: an output of at least three points whose final pair, made by
\* appending the true last point, is closer than min_distance
C3_Witness ==
    /\ p_pc = "done"
    /\ Len(p_out) >= 3
    /\ ForcedEnd(p_path, p_min_distance, p_resolution)
    /\ ~ ApartAtLeast(p_out[Len(p_out) - 1], p_out[Len(p_out)], p_min_distance)

RECURSIVE Tags(_, _, _)
\* for every position of sample_waypoints' result: whether it is the first
\* point sampled on its path, and whether it is the force-appended last point
Tags(paths, i, r) ==
    IF i > Len(paths)
    THEN <<>>
    ELSE LET n == Len(poisson_disk_along_path(paths[i], r, 0))
         IN  [j \in 1..n |->
                [first |-> j = 1,
                 forced |-> j = n /\ Len(paths[i]) > 0
                                  /\ Len(Dense(paths[i], r, 0)) > 1
                                  /\ ForcedEnd(paths[i], r, 0)]]
             \o Tags(paths, i + 1, r)

\* C4 as stated: every pair of consecutive positions returned by
\* sample_waypoints is at distance >= min_distance, except a pair whose second
\* element is the force-included terminal point of a path.
C4_StageSpacing ==
    s_pc = "done" =>
        \A i \in 1..(Len(s_positions) - 1) :
            \/ ApartAtLeast(s_positions[i], s_positions[i + 1], s_min_distance)
            \/ Tags(s_paths, 1, s_min_distance)[i + 1].forced

\* C4 amended: ... except a pair whose second element is the force-included
\* terminal point of a path or the first point sampled on a path (the pair
\* joins the samples of two paths).
C4_StageSpacingWithinPaths ==
    s_pc = "done" =>
        \A i \in 1..(Len(s_positions) - 1) :
            \/ ApartAtLeast(s_positions[i], s_positions[i + 1], s_min_distance)
            \/ Tags(s_paths, 1, s_min_distance)[i + 1].forced
            \/ Tags(s_paths, 1, s_min_distance)[i + 1].first

\* C4 witness: two paths were sampled, the first with a force-appended end
\* closer than min_distance, and the second path starts closer than
\* min_distance to the end of the first
C4_Witness ==
    /\ s_pc = "done"
    /\ Len(s_paths) = 2
    /\ \E i \in 2..(Len(s_positions) - 1) :
        /\ Tags(s_paths, 1, s_min_distance)[i].forced
        /\ ~ ApartAtLeast(s_positions[i - 1], s_positions[i], s_min_distance)
        /\ Tags(s_paths, 1, s_min_distance)[i + 1].first
        /\ ~ ApartAtLeast(s_positions[i], s_positions[i + 1], s_min_distance)

(***************************************************************************)
(* Claims about the constraint validator (checked under SpecConstraints).  *)
(***************************************************************************)
\* the positions of the returned waypoints
ResultPositions ==
    [i \in 1..Len(ec_result.waypoints) |->
        <<ec_result.waypoints[i].x, ec_result.waypoints[i].y>>]

\* the timestamps of the returned waypoints
ResultTimes ==
    [i \in 1..Len(ec_result.waypoints) |-> ec_result.waypoints[i].timestamp]

\* the time the nominal speed takes over the step from waypoint i to i + 1
StepTime(i) == FDiv(StepLength(ResultPositions, i), ec_max_velocity)

\* C7 (as stated): the waypoints returned by enforce_constraints have
\* timestamp 0 at index 0, the timestamps never decrease, and the difference
\* of two consecutive timestamps equals the distance between the two
\* (clamped) waypoints divided by max_velocity.
C7_MonotonicTime ==
    ec_pc = "done" =>
        /\ ec_result.waypoints # <<>> => ResultTimes[1] = 0
        /\ \A i \in 1..(Len(ResultTimes) - 1) :
              /\ ResultTimes[i] <= ResultTimes[i + 1]
              /\ FSub(ResultTimes[i + 1], ResultTimes[i]) = StepTime(i)

\* C7 (amended): the waypoints returned by enforce_constraints have
\* timestamp 0 at index 0, the timestamps never decrease, and each timestamp
\* is the floating-point sum of the one before it and the distance between
\* the two (clamped) waypoints divided by max_velocity.
C7_RunningSum ==
    ec_pc = "done" =>
        /\ ec_result.waypoints # <<>> => ResultTimes[1] = 0
        /\ \A i \in 1..(Len(ResultTimes) - 1) :
              /\ ResultTimes[i] <= ResultTimes[i + 1]
              /\ ResultTimes[i + 1] = FAdd(ResultTimes[i], StepTime(i))

\* a call with bounds that moved a point, whose running sum was rounded:
\* the last difference of timestamps is not the last step's time
C7_Witness ==
    /\ ec_pc = "done"
    /\ ec_bounds # <<>>
    /\ ResultPositions # ec_positions
    /\ Len(ResultTimes) = 3
    /\ ResultTimes[1] < ResultTimes[2]
    /\ ResultTimes[2] < ResultTimes[3]
    /\ FSub(ResultTimes[3], ResultTimes[2]) # StepTime(2)

\* the bounds are given with min <= max on each axis and the margin is >= 0
ProperBounds ==
    /\ ec_bounds # <<>>
    /\ ec_bounds[1] <= ec_bounds[3]
    /\ ec_bounds[2] <= ec_bounds[4]
    /\ ec_margin >= 0

\* the points returned by clamp_to_bounds or by enforce_constraints
Returned ==
    IF ec_pc = "clamped" THEN ec_clamped
    ELSE IF ec_pc = "done" THEN ResultPositions
    ELSE <<>>

Clamp(positions) ==
    clamp_to_bounds(positions, ec_bounds[1], ec_bounds[2], ec_bounds[3],
                    ec_bounds[4], ec_margin)

\* every coordinate of the points lies in [min + margin, max - margin]
AllInRange(positions) ==
    \A i \in 1..Len(positions) :
        /\ ec_bounds[1] + ec_margin <= positions[i][1]
        /\ positions[i][1] <= ec_bounds[3] - ec_margin
        /\ ec_bounds[2] + ec_margin <= positions[i][2]
        /\ positions[i][2] <= ec_bounds[4] - ec_margin

\* C9: for every point set, bounds and margin, clamping what clamp_to_bounds
\* returned returns the same points, and clamp_to_bounds returns the points
\* it was given whenever every coordinate already lies in
\* [min + margin, max - margin].
C9_ClampIdempotent ==
    ec_pc = "clamped" =>
        /\ ec_clamped = Clamp(ec_positions)
        /\ Clamp(ec_clamped) = ec_clamped
        /\ AllInRange(ec_positions) => ec_clamped = ec_positions

\* clamp_to_bounds moved a point of a call, and left the points of another
\* kind of call alone; here: it moved one point and kept another
C9_Witness ==
    /\ ec_pc = "clamped"
    /\ Len(ec_positions) >= 2
    /\ \E i, j \in 1..Len(ec_positions) :
          /\ ec_clamped[i] # ec_positions[i]
          /\ ec_clamped[j] = ec_positions[j]
    /\ AllInRange(ec_clamped)

\* C10: for fixed positions, max_velocity, altitude, bounds and margin, the
\* waypoints and the velocity profile returned by enforce_constraints are
\* the same for every max_acceleration, whether or not a velocity or
\* acceleration violation is reported.
C10_Advisory ==
    ec_pc = "done" =>
        \A a \in MaxAccelerations :
            LET other == enforce_constraints(ec_positions, ec_max_velocity, a,
                                             DefaultAltitude, ec_bounds, ec_margin)
            IN  /\ other.waypoints = ec_result.waypoints
                /\ other.velocity_profile = ec_result.velocity_profile
                /\ Len(ec_result.waypoints) = Len(ec_positions)

\* the call reported an acceleration violation that another
\* max_acceleration does not give, and returned all its waypoints
C10_Witness ==
    /\ ec_pc = "done"
    /\ \E e \in 1..Len(ec_result.validation_report) :
          ec_result.validation_report[e].kind = "acceleration"
    /\ \E a \in MaxAccelerations :
          enforce_constraints(ec_positions, ec_max_velocity, a, DefaultAltitude,
                              ec_bounds, ec_margin).validation_report
              # ec_result.validation_report
    /\ Len(ec_result.waypoints) = 3


(***************************************************************************)
(* Claims about the end points of the path sampler's output (checked under *)
(* SpecPath).                                                              *)
(***************************************************************************)
\* the rational point q is the path point p
SamePoint(q, p) == q[1] = p[1] * q[3] /\ q[2] = p[2] * q[3]

\* the scalar product (q - a) . (b - a), times the denominator of q
Along(q, a, b) ==
    (q[1] - a[1] * q[3]) * (b[1] - a[1]) + (q[2] - a[2] * q[3]) * (b[2] - a[2])

\* the rational point q lies on the segment from a to b
OnSegment(q, a, b) ==
    IF a = b
    THEN SamePoint(q, a)
    ELSE /\ (q[1] - a[1] * q[3]) * (b[2] - a[2])
              = (q[2] - a[2] * q[3]) * (b[1] - a[1])
         /\ 0 <= Along(q, a, b)
         /\ Along(q, a, b) <= Dist2(a, b) * q[3]

\* every point of out lies on the path and out follows the order of the
\* path: the points can be assigned to segments in nondecreasing order, and
\* the points assigned to one segment advance from its start to its end
FollowsPath(out, path) ==
    IF Len(path) = 1
    THEN \A k \in 1..Len(out) : SamePoint(out[k], path[1])
    ELSE \E f \in [1..Len(out) -> 1..(Len(path) - 1)] :
            /\ \A k \in 1..Len(out) :
                OnSegment(out[k], path[f[k]], path[f[k] + 1])
            /\ \A k \in 1..(Len(out) - 1) :
                \/ f[k] < f[k + 1]
                \/ /\ f[k] = f[k + 1]
                   /\ Along(out[k], path[f[k]], path[f[k] + 1]) * out[k + 1][3]
                        <= Along(out[k + 1], path[f[k]], path[f[k] + 1])
                             * out[k][3]

\* what C14 says besides the last point: an empty path gives an empty
\* output, a single point gives that point, the output starts with the
\* path's first point, lies on the path and follows its order
StartsAndFollows ==
    /\ Len(p_path) = 0 => p_out = <<>>
    /\ Len(p_path) = 1 => p_out = <<Rat(p_path[1])>>
    /\ (Len(p_path) >= 1 /\ p_min_distance > 0) =>
        /\ Len(p_out) >= 1
        /\ SamePoint(p_out[1], p_path[1])
        /\ FollowsPath(p_out, p_path)

\* C14 as stated: for a path of at least one point and min_distance > 0 the
\* output of poisson_disk_along_path starts with the path's first point, ends
\* with the path's true last point, lies on the path and follows its order;
\* an empty path gives an empty output, a single point gives that point.
C14_Endpoints ==
    p_pc = "done" =>
        /\ StartsAndFollows
        /\ (Len(p_path) >= 1 /\ p_min_distance > 0) =>
            SamePoint(p_out[Len(p_out)], p_path[Len(p_path)])

\* C14 amended: ... ends with a point that np.allclose takes for the path's
\* true last point (equal to it within 1e-8 + 1e-5 * |coordinate|): the true
\* last point itself when it was appended, the last kept point otherwise.
C14_EndpointsClose ==
    p_pc = "done" =>
        /\ StartsAndFollows
        /\ (Len(p_path) >= 1 /\ p_min_distance > 0) =>
            AllClose(p_out[Len(p_out)], Rat(p_path[Len(p_path)]))

\* C14 witness: a path of several points was sampled with a positive
\* min_distance, and the output ends with a kept point that is not the true
\* last point of the path
C14_Witness ==
    /\ p_pc = "done"
    /\ Len(p_path) >= 2
    /\ p_min_distance > 0
    /\ Len(p_out) >= 2
    /\ ~ SamePoint(p_out[Len(p_out)], p_path[Len(p_path)])


\* C15, for the path sampler: for every min_distance <= 0 the call of
\* poisson_disk_along_path does not raise and returns an empty point set.
C15_InvalidSpacing ==
    p_min_distance <= 0 =>
        /\ p_pc # "raised"
        /\ p_pc = "done" => p_out = <<>>


(***************************************************************************)
(* Claims about check_velocity (checked under SpecVelocity).               *)
(***************************************************************************)
\* the 0-based indices of the segments that have both end points and both
\* timestamps
CvSegments ==
    IF Len(cv_positions) < 2 \/ Len(cv_timestamps) < 2
    THEN {}
    ELSE 0..(Min2(Len(cv_positions), Len(cv_timestamps)) - 2)

\* the time step of segment i, an exact difference
CvStep(i) == cv_timestamps[i + 2] - cv_timestamps[i + 1]

\* distance(p[i], p[i + 1]) > max_velocity * dt in exact arithmetic, on the
\* squares: lengths, times and speeds are counted in quanta of 1 / FScale
ExceedsExactly(i) ==
    FScale * FScale * Dist2(cv_positions[i + 1], cv_positions[i + 2])
        > cv_max_velocity * cv_max_velocity * CvStep(i) * CvStep(i)

\* the computed speed of segment i, the floating-point quotient of the
\* computed distance by the computed time step, exceeds max_velocity
ExceedsComputed(i) ==
    FDiv(Norm(FSub(cv_positions[i + 2][1], cv_positions[i + 1][1]),
              FSub(cv_positions[i + 2][2], cv_positions[i + 1][2])),
         FSub(cv_timestamps[i + 2], cv_timestamps[i + 1])) > cv_max_velocity

\* s lists its elements in increasing order
Increasing(s) == \A i \in 1..(Len(s) - 1) : s[i] < s[i + 1]

\* C20 as stated: check_velocity returns (ok, V) where V is exactly the
\* increasing list of the segment indices i with
\* timestamps[i + 1] - timestamps[i] > 0 and
\* distance(p[i], p[i + 1]) > max_velocity * (timestamps[i + 1] - timestamps[i]),
\* ok holds exactly when V is empty, and fewer than 2 points give (True, []).
C20_ProductTest ==
    cv_pc = "done" =>
        /\ Increasing(cv_result.violations)
        /\ {cv_result.violations[k] : k \in 1..Len(cv_result.violations)}
             = {i \in CvSegments : CvStep(i) > 0 /\ ExceedsExactly(i)}
        /\ cv_result.ok <=> cv_result.violations = <<>>
        /\ Len(cv_positions) < 2 => cv_result = [ok |-> TRUE, violations |-> <<>>]

\* C20 amended: V is exactly the increasing list of the segment indices i
\* with timestamps[i + 1] - timestamps[i] > 0 whose computed speed, the
\* floating-point quotient distance / dt, is greater than max_velocity.
C20_QuotientTest ==
    cv_pc = "done" =>
        /\ Increasing(cv_result.violations)
        /\ {cv_result.violations[k] : k \in 1..Len(cv_result.violations)}
             = {i \in CvSegments : CvStep(i) > 0 /\ ExceedsComputed(i)}
        /\ cv_result.ok <=> cv_result.violations = <<>>
        /\ Len(cv_positions) < 2 => cv_result = [ok |-> TRUE, violations |-> <<>>]

\* C20 witness: a call with three points and three timestamps where one
\* segment is reported and the other, whose exact distance exceeds
\* max_velocity * dt, is not
C20_Witness ==
    /\ cv_pc = "done"
    /\ Len(cv_positions) = 3
    /\ Len(cv_timestamps) = 3
    /\ Len(cv_result.violations) = 1
    /\ ~ cv_result.ok
    /\ \E i \in CvSegments :
        /\ CvStep(i) > 0
        /\ ExceedsExactly(i)
        /\ \A k \in 1..Len(cv_result.violations) : cv_result.violations[k] # i

(***************************************************************************)
(* Claims about the show assembly (checked under SpecAssembly and          *)
(* SpecAssemblyTwice).                                                     *)
(***************************************************************************)
\* the trajectories of the show returned
Trajectories == sk_show.skybrush_format.trajectories

\* the offsets a drone can have in the model: anchors and centroids lie
\* within 8 quanta of the origin
OffsetRange == (-8)..8

\* trajectory t is the base waypoint list moved by (ox, oy): as many points,
\* each with the time, z and velocity of its waypoint
MovedBy(t, ox, oy) ==
    /\ Len(t.points) = Len(sk_waypoints)
    /\ \A j \in 1..Len(sk_waypoints) :
        /\ t.points[j].time = sk_waypoints[j].timestamp
        /\ t.points[j].z = sk_waypoints[j].z
        /\ t.points[j].velocity = sk_waypoints[j].velocity
        /\ t.points[j].x = FAdd(sk_waypoints[j].x, ox)
        /\ t.points[j].y = FAdd(sk_waypoints[j].y, oy)

\* C11: export_skybrush yields exactly max(1, drone_count) trajectories, the
\* i-th carrying drone_index i (0-based) and number_of_drones equal to the
\* trajectory count; every trajectory has as many points as the base waypoint
\* list, and point j has the time, z and velocity of base waypoint j and
\* (x, y) equal to the base (x, y) plus one constant offset per drone.
C11_Trajectories ==
    sk_pc = "done" =>
        /\ Len(Trajectories) = (IF sk_drones > 1 THEN sk_drones ELSE 1)
        /\ sk_show.skybrush_format.number_of_drones = Len(Trajectories)
        /\ \A i \in 1..Len(Trajectories) :
            /\ Trajectories[i].drone_index = i - 1
            /\ \E ox \in OffsetRange, oy \in OffsetRange :
                MovedBy(Trajectories[i], ox, oy)

\* C11 witness: a show of three drones over several waypoints, two of the
\* drones moved by different offsets that are not zero in x and y
C11_Witness ==
    /\ sk_pc = "done"
    /\ sk_drones = 3
    /\ Len(sk_waypoints) >= 2
    /\ Len(Trajectories) = 3
    /\ \E ox \in OffsetRange \ {0}, oy \in OffsetRange \ {0} :
        /\ MovedBy(Trajectories[1], ox, oy)
        /\ ~ MovedBy(Trajectories[2], ox, oy)
        /\ ~ MovedBy(Trajectories[2], 0, 0)

\* the centroid of the base waypoints, each coordinate the mean rounded to a
\* float; (0, 0) when there are no waypoints
RECURSIVE SumX(_)
SumX(n) == IF n = 0 THEN 0 ELSE SumX(n - 1) + sk_waypoints[n].x

RECURSIVE SumY(_)
SumY(n) == IF n = 0 THEN 0 ELSE SumY(n - 1) + sk_waypoints[n].y

BaseCentroid ==
    IF sk_waypoints = <<>>
    THEN <<0, 0>>
    ELSE <<FRound(SumX(Len(sk_waypoints)), Len(sk_waypoints)),
           FRound(SumY(Len(sk_waypoints)), Len(sk_waypoints))>>

\* C12: the offset list has exactly drone_count entries; for drone_count 1 it
\* is [(0, 0)]; for drone_count >= 2, when the area sampler returned no
\* points every drone gets (0, 0), and when it returned k points drone i < k
\* gets anchor i minus the centroid of the base waypoints and every drone
\* i >= k gets the offset of drone k - 1.
C12_Offsets ==
    (sk_pc = "done" /\ sk_drones >= 1) =>
        /\ Len(sk_offsets) = sk_drones
        /\ sk_drones = 1 => sk_offsets = <<(<<0, 0>>)>>
        /\ (sk_drones >= 2 /\ a_out = <<>>) =>
            \A i \in 1..sk_drones : sk_offsets[i] = <<0, 0>>
        /\ (sk_drones >= 2 /\ a_out # <<>>) =>
            \A i \in 1..sk_drones :
                IF i <= Len(a_out)
                THEN sk_offsets[i] = <<FSub(a_out[i][1], BaseCentroid[1]),
                                       FSub(a_out[i][2], BaseCentroid[2])>>
                ELSE sk_offsets[i] = sk_offsets[Len(a_out)]

\* C12 witness: three drones were asked for and the sampler returned two
\* anchors; the third drone has the offset of the second, which is not zero,
\* and the centroid of the waypoints is not the origin
C12_Witness ==
    /\ sk_pc = "done"
    /\ sk_drones = 3
    /\ Len(a_out) = 2
    /\ BaseCentroid # <<0, 0>>
    /\ sk_offsets[3] = sk_offsets[2]
    /\ sk_offsets[2] # <<0, 0>>
    /\ sk_offsets[1] # sk_offsets[2]

\* C13: for drone_count >= 2 two calls of export_skybrush with identical
\* arguments produce identical formation offsets and identical trajectories.
C13_Deterministic ==
    (sk_pc = "done" /\ sk_calls = 2 /\ sk_drones >= 2) =>
        /\ sk_offsets = sk_first.offsets
        /\ sk_show = sk_first.show

(***************************************************************************)
(* Claims about the points-attribute parser (checked under SpecPoints).    *)
(***************************************************************************)
\* the strings 'x1,y1 x2,y2 ... xk,yk' of one-digit numbers: every pair is
\* three characters, the pairs separated by one comma or one space
WellFormedPairs(s) ==
    /\ Len(s) % 4 = 3
    /\ \A i \in 1..Len(s) :
        CASE i % 4 = 1 -> s[i] \in Digits
          [] i % 4 = 2 -> s[i] \in {",", " "}
          [] i % 4 = 3 -> s[i] \in Digits
          [] OTHER -> s[i] \in {",", " "}

\* the float a digit writes, in quanta
DigitOf(c) == IF c = "1" THEN FScale ELSE 2 * FScale

\* the k points (x1, y1) ... (xk, yk) written in a well-formed s
PairsOf(s) ==
    [j \in 1..((Len(s) + 1) \div 4) |->
        <<DigitOf(s[4 * j - 3]), DigitOf(s[4 * j - 1])>>]

\* C17: for a points attribute 'x1,y1 x2,y2 ... xk,yk' of numeric coordinate
\* pairs (separated by commas or white space) _parse_points_attr returns
\* exactly the k points (x1, y1) ... (xk, yk), in order.
C17_PointsParsed ==
    (pp_pc # "call" /\ WellFormedPairs(pp_str)) =>
        /\ pp_pc = "done"
        /\ pp_out = PairsOf(pp_str)

(***************************************************************************)
(* Claims about the extractor (checked under SpecExtract).                 *)
(***************************************************************************)
\* C16: for every markup, ill-formed XML and elements with non-numeric
\* attributes included, _extract_paths_from_svg returns a (possibly empty)
\* list and never raises.
C16_NeverRaises == ex_pc # "raised"

(***************************************************************************)
(* C18: joint recentring in process_geometry.                              *)
(***************************************************************************)
\* the result of the same call without recentring: the kept paths, scaled
\* and simplified, and their union bounding box
Unshifted ==
    IF ExtractRaises(pg_markup)
    THEN NoGeometry
    ELSE process_geometry(extract_paths_from_svg(pg_markup), pg_tolerance,
                          FALSE, pg_scale)

\* the centre of a bounding box in one axis, as the floating-point midpoint
Centre(lo, hi) == FDiv(FAdd(lo, hi), 2 * FScale)

\* every returned point is the kept point of base minus <<cx, cy>>, rounded
SameVector(base, cx, cy) ==
    /\ Len(pg_result.paths) = Len(base.paths)
    /\ \A i \in 1..Len(pg_result.paths) :
          /\ Len(pg_result.paths[i].points) = Len(base.paths[i].points)
          /\ \A k \in 1..Len(pg_result.paths[i].points) :
                pg_result.paths[i].points[k]
                  = <<FSub(base.paths[i].points[k][1], cx),
                      FSub(base.paths[i].points[k][2], cy)>>

\* the kept paths are moved by the centre of their union bounding box
MovedByCentre ==
    LET base == Unshifted
        cx == Centre(base.bounding_box[1], base.bounding_box[3])
        cy == Centre(base.bounding_box[2], base.bounding_box[4])
    IN  SameVector(base, cx, cy)

\* the returned bounding_box is the bounding box of all returned points
BoxOfReturned ==
    LET all == UNION {{pg_result.paths[i].points[k] :
                          k \in 1..Len(pg_result.paths[i].points)} :
                      i \in 1..Len(pg_result.paths)}
        box == pg_result.bounding_box
    IN  /\ \E p \in all : p[1] = box[1]
        /\ \E p \in all : p[2] = box[2]
        /\ \E p \in all : p[1] = box[3]
        /\ \E p \in all : p[2] = box[4]
        /\ \A p \in all : box[1] <= p[1] /\ p[1] <= box[3]
        /\ \A p \in all : box[2] <= p[2] /\ p[2] <= box[4]

Recentred == pg_pc = "done" /\ pg_origin_center /\ pg_result.paths # <<>>

\* C18 as stated: with origin_center and a kept path, every kept path is
\* translated by the same vector, the returned bounding_box is the bounding
\* box of the returned points, and min_x = -max_x, min_y = -max_y
C18_Centred ==
    Recentred =>
        /\ MovedByCentre
        /\ BoxOfReturned
        /\ pg_result.bounding_box[1] = -pg_result.bounding_box[3]
        /\ pg_result.bounding_box[2] = -pg_result.bounding_box[4]

\* C18 as the code has it: with origin_center and a kept path, every kept
\* point is moved by the same vector, the floating-point midpoint of the
\* union bounding box, each difference rounded; the returned bounding_box is
\* the bounding box of the returned points, has min <= max in both axes and
\* contains the origin
C18_SameVector ==
    Recentred =>
        /\ MovedByCentre
        /\ BoxOfReturned
        /\ pg_result.bounding_box[1] <= 0 /\ 0 <= pg_result.bounding_box[3]
        /\ pg_result.bounding_box[2] <= 0 /\ 0 <= pg_result.bounding_box[4]

\* two paths kept and recentred by a vector with two non-zero components,
\* the returned box not symmetric about the origin
C18_Witness ==
    /\ Recentred
    /\ Len(pg_result.paths) = 2
    /\ Centre(Unshifted.bounding_box[1], Unshifted.bounding_box[3]) # 0
    /\ Centre(Unshifted.bounding_box[2], Unshifted.bounding_box[4]) # 0
    /\ pg_result.bounding_box[1] # -pg_result.bounding_box[3]

(***************************************************************************)
(* C19: empty geometry is not fatal.                                       *)
(***************************************************************************)
\* the extractor returns, and no path it returns is kept by the geometry
\* stage: none was extracted, or all were dropped
ZeroPaths ==
    /\ ~ ExtractRaises(pl_markup)
    /\ LET raw_paths == extract_paths_from_svg(pl_markup)
       IN  \A i \in 1..Len(raw_paths) :
              KeptPath(raw_paths[i], 0, 3 * (FScale \div 8)) = <<>>

\* the show of an empty run: no waypoints, duration 0, one trajectory with
\* no points for each drone
EmptyShow ==
    /\ pl_show.waypoints = <<>>
    /\ pl_show.skybrush_format.duration = 0
    /\ Len(pl_show.skybrush_format.trajectories) = pl_drones
    /\ \A i \in 1..pl_drones :
          pl_show.skybrush_format.trajectories[i].points = <<>>

\* a stage is still to run, or the export stage has a step to take: the
\* assembly is to begin, the area sampler is at its entry, in its loop with a
\* candidate to draw, or has returned, or the assembly has returned
CanStep ==
    \/ pl_pc \in {"geometry", "sampling", "constraints", "export"}
    \/ /\ pl_pc = "exporting"
       /\ \/ sk_pc = "call"
          \/ sk_pc = "sampling" /\ a_pc \in {"entry", "done"}
          \/ /\ sk_pc = "sampling"
             /\ a_pc = "loop"
             /\ (active # <<>> /\ Len(active) < a_args.n_points) =>
                    Candidates(active[1], a_args.min_distance) # {}
          \/ sk_pc = "done"

\* C19: for every markup with no kept path and every drone_count >= 1 the
\* stages in sequence never raise and never stop before the show is
\* returned; the validation report is empty, and the show has no waypoints,
\* duration 0 and exactly drone_count trajectories, each without points
C19_EmptyNonFatal ==
    ZeroPaths =>
        /\ pl_pc # "raised"
        /\ pl_pc # "done" => CanStep
        /\ pl_pc \in {"export", "exporting", "done"} =>
              /\ pl_constraint.waypoints = <<>>
              /\ pl_constraint.validation_report = <<>>
        /\ pl_pc = "done" => EmptyShow

\* a polygon was extracted and dropped, three drones were placed by the
\* area sampler on the expanded empty box, and the show is returned
C19_Witness ==
    /\ ZeroPaths
    /\ \E i \in 1..Len(pl_markup.elems) : pl_markup.elems[i].tag = "polygon"
    /\ pl_drones = 3
    /\ Len(a_out) > 1
    /\ pl_pc = "done"

(***************************************************************************)
(* C21: the stop condition of the area sampler (checked under SpecArea).   *)
(***************************************************************************)
\* the number of accepted points stored in the grid
AcceptedCount == Len(Flatten(grid))

\* the sampler is in its loop or has left it
Sampling == a_pc = "loop" \/ (a_pc = "done" /\ grid # <<>>)

\* C21 as stated: the number of accepted points stored in the grid never
\* exceeds n_points, and the loop exits with an empty active list or with
\* exactly n_points accepted points
C21_StopAtCount ==
    Sampling =>
        /\ AcceptedCount <= a_args.n_points
        /\ a_pc = "done" => (active = <<>> \/ AcceptedCount = a_args.n_points)

\* C21 as the code has it: the loop runs while the active list is non-empty
\* and shorter than n_points, so it exits with an empty active list or with
\* exactly n_points active points; the active points are among the accepted
\* ones, which may be more than n_points, and the returned array holds the
\* first n_points of them at most
C21_StopAtActive ==
    Sampling =>
        /\ Len(active) <= a_args.n_points
        /\ Len(active) <= AcceptedCount
        /\ \A i \in 1..Len(active) :
              \E j \in 1..AcceptedCount : Flatten(grid)[j] = active[i]
        /\ a_pc = "done" =>
              /\ active = <<>> \/ Len(active) = a_args.n_points
              /\ Len(a_out) <= a_args.n_points
              /\ \A j \in 1..Len(a_out) : a_out[j] = Flatten(grid)[j]

\* the loop has ended with n_points active points and more than n_points
\* accepted ones
C21_Witness ==
    /\ a_pc = "done"
    /\ Len(active) = a_args.n_points
    /\ AcceptedCount > a_args.n_points

(***************************************************************************)
(* C22: termination of the area sampler (checked under SpecAreaFair).      *)
(***************************************************************************)
\* a loop iteration: a new point is accepted and becomes active, or one
\* point leaves the active list and the grid stays as it is
LoopStep ==
    (a_pc = "loop" /\ a_pc' = "loop") =>
        \/ /\ Len(Flatten(grid')) = Len(Flatten(grid)) + 1
           /\ Len(active') = Len(active) + 1
        \/ /\ grid' = grid
           /\ Len(active') = Len(active) - 1

\* C22: every loop iteration accepts a new point or removes one point from
\* the active list, and a sampler that has entered its loop returns
C22_Terminates ==
    /\ [][LoopStep]_vars
    /\ (a_pc = "loop") ~> (a_pc = "done")

\* the sampler has returned after accepting three points and removing all
\* of them from the active list
C22_Witness ==
    /\ a_pc = "done"
    /\ Len(Flatten(grid)) = 3
    /\ active = <<>>

Staged(raw, simplified_first) ==
    IF simplified_first
    THEN Scaled(douglas_peucker(raw.pts, pg_tolerance), pg_scale)
    ELSE douglas_peucker(Scaled(raw.pts, pg_scale), pg_tolerance)

\* the points of the first n staged paths
RECURSIVE StagedPoints(_, _)
StagedPoints(pts, n) ==
    IF n = 0 THEN <<>> ELSE StagedPoints(pts, n - 1) \o pts[n]

\* the returned paths are the extracted paths staged in the order given,
\* those of two points or more, each then moved by the centre of their
\* union bounding box when origin_center is set
ReturnedInOrder(simplified_first) ==
    LET raw_paths == extract_paths_from_svg(pg_markup)
        all == [i \in 1..Len(raw_paths) |->
                   IF Len(raw_paths[i].pts) < 2
                   THEN <<>>
                   ELSE Staged(raw_paths[i], simplified_first)]
        pts == SelectSeq(all, LAMBDA p : Len(p) >= 2)
        box == bounding_box(StagedPoints(pts, Len(pts)))
        cx == IF pg_origin_center THEN Centre(box[1], box[3]) ELSE 0
        cy == IF pg_origin_center THEN Centre(box[2], box[4]) ELSE 0
    IN  /\ Len(pg_result.paths) = Len(pts)
        /\ \A i \in 1..Len(pts) :
              /\ Len(pg_result.paths[i].points) = Len(pts[i])
              /\ \A k \in 1..Len(pts[i]) :
                    pg_result.paths[i].points[k]
                      = <<FSub(pts[i][k][1], cx), FSub(pts[i][k][2], cy)>>

\* C24 as stated: every extracted path is simplified before it is scaled or
\* centred, so that the tolerance is measured in the extractor's coordinates
C24_SimplifiedFirst == pg_pc = "done" => ReturnedInOrder(TRUE)

\* C24 as the code has it: every extracted path is scaled, then simplified
\* at the tolerance measured in the scaled coordinates, and the kept paths
\* are centred last
C24_ScaledFirst == pg_pc = "done" => ReturnedInOrder(FALSE)

\* a call with a scale other than 1 and a positive tolerance that keeps a
\* path of which the other order would keep other points
C24_Witness ==
    /\ pg_pc = "done"
    /\ pg_scale # FScale
    /\ pg_tolerance > 0
    /\ pg_result.paths # <<>>
    /\ ~ ReturnedInOrder(TRUE)

(***************************************************************************)
(* C25: closed loops in douglas_peucker and process_geometry (checked      *)
(* under SpecClosedLoops).                                                 *)
(***************************************************************************)
\* a path of 3 points or more whose first and last points coincide
ClosedLoop(pts) == Len(pts) >= 3 /\ pts[1] = pts[Len(pts)]

\* douglas_peucker reduces a closed loop to its first point
LoopToPoint ==
    (dp_pc = "done" /\ ClosedLoop(dp_points)) => dp_out = <<dp_points[1]>>

\* process_geometry returns what it returns for the extracted paths that
\* are not closed loops: the loops add nothing to paths, to path_count or
\* to the bounding box
LoopsOmitted ==
    pg_pc = "done" =>
        pg_result
          = process_geometry(
                SelectSeq(extract_paths_from_svg(pg_markup),
                          LAMBDA raw : ~ ClosedLoop(raw.pts)),
                pg_tolerance, pg_origin_center, pg_scale)

\* the recursive calls of the finished call that returned a single point
SubCollapses ==
    CollapsedSlices(dp_points, 1, Len(dp_points), dp_tolerance)
      \ {<<1, Len(dp_points)>>}

\* C25 as stated: for every tolerance a closed loop is reduced to a single
\* point and omitted from the paths and the bounding box of the result, and
\* no recursive call of douglas_peucker returns a single point
C25_TopLevelOnly ==
    /\ LoopToPoint
    /\ LoopsOmitted
    /\ dp_pc = "done" => SubCollapses = {}

\* C25 as the code has it: for every tolerance >= 0 a closed loop is reduced
\* to a single point and omitted from the paths and the bounding box of the
\* result; a recursive call of douglas_peucker returns a single point only
\* for a slice whose first and last points differ and are less than 1e-12
\* apart, never for a slice whose first and last points coincide
C25_SubCallByEps ==
    /\ LoopToPoint
    /\ LoopsOmitted
    /\ dp_pc = "done" =>
          \A s \in SubCollapses :
              /\ dp_points[s[1]] # dp_points[s[2]]
              /\ Dist2(dp_points[s[1]], dp_points[s[2]])
                   < LineLenEps * LineLenEps

\* a call of douglas_peucker on 4 points, the first and last far apart, of
\* which a recursive call returned a single point, so that the first input
\* point is not in the output
C25_Witness ==
    /\ dp_pc = "done"
    /\ Len(dp_points) = 4
    /\ Dist2(dp_points[1], dp_points[4]) >= LineLenEps * LineLenEps
    /\ <<1, 3>> \in SubCollapses
    /\ dp_out[1] # dp_points[1]
=============================================================================
